---- MODULE Spec2Model ----
(***************************************************************************)
(* Model of the quantitative decision engine of the APAC expansion         *)
(* repository: MarketScorer (src/src/models/scoring.py),                   *)
(* RevenueForecaster (src/src/models/forecast.py) and                      *)
(* MonteCarloSimulator (src/src/models/monte_carlo.py).                    *)
(*                                                                         *)
(* Numbers.  Python floats are modelled as exact rationals kept as scaled  *)
(* integers:                                                               *)
(*   - a weight vector is a record [num, den]: the weight of key k is      *)
(*     num[k] / den (den = 100 for the vectors a caller passes in);        *)
(*   - a standardized feature value is an integer count of tenths;         *)
(*   - a total_score is a numerator over (10 * den of the weights used).   *)
(*   - a forecast rate is an integer count of hundredths (conversion       *)
(*     rates, gross margin, market_adjustment) or thousandths (churn);     *)
(*     money inputs are in thousands of USD and money fields of a month    *)
(*     record are numerators over 1200 (thousand USD).                     *)
(* Rounding error of binary floating point is not modelled, but for the    *)
(* products int() truncates in forecast_revenue (see JustBelowWhole).      *)
(***************************************************************************)
EXTENDS Integers, Sequences, FiniteSets, TLC

VARIABLES
    given,        \* the weights argument handed to MarketScorer.__init__
    weights,      \* self.weights of the scorer
    warnings,     \* the warnings printed so far (a set of records)
    df,           \* the feature table handed to the scorer's methods
    call,         \* the last method called on the scorer, with its arguments
    status,       \* how that call ended: "none", "ok", "KeyError", "ValueError"
    scored,       \* the table returned by the last score_markets call
    tested,       \* sensitivity_analysis: the weight vectors given to MarketScorer(test_weights)
    points,       \* sensitivity_analysis: the rows of the returned table
    sweeps,       \* the sensitivity_analysis calls completed on the scorer, with their results
    full,         \* the dictionary returned by the last run_full_sensitivity call
    assumptions,  \* the assumptions dictionary of the RevenueForecaster
    forecast,     \* the month records returned by the last forecast_revenue call
    payback,      \* the value returned by the last calculate_payback_period call
    scenarios,    \* the dictionary returned by the last generate_scenarios call
    rng,          \* the state of the process-wide generator behind np.random
    sims,         \* simulate_revenue: the values each simulation drew (parameters, monthly counts)
    panel,        \* simulate_revenue: the rows of results_df
    summary,      \* simulate_revenue: the rows of summary_stats
    seen,         \* the simulate_revenue invocations completed so far, with what they returned
    paydist       \* what the last calculate_payback_distribution call returned

\* What the repeated sweeps leave behind.
sensvars == <<sweeps, full>>

\* The variables of the Monte Carlo simulator.
mcvars == <<rng, sims, panel, summary, seen, paydist>>

vars == <<given, weights, warnings, df, call, status, scored, tested, points,
          sensvars, assumptions, forecast, payback, scenarios, mcvars>>

-----------------------------------------------------------------------------
(* Helpers                                                                 *)

RECURSIVE SumSet(_, _)
\* sum(f[x] for x in S)
SumSet(f, S) ==
    IF S = {} THEN 0
    ELSE LET x == CHOOSE y \in S : TRUE
         IN  f[x] + SumSet(f, S \ {x})

Abs(x) == IF x < 0 THEN -x ELSE x
Max(a, b) == IF a >= b THEN a ELSE b
Min(a, b) == IF a <= b THEN a ELSE b

RECURSIVE Perms(_)
\* The orderings of 1..n, as sequences: n put at any place of an ordering of 1..n-1.
Perms(n) ==
    IF n = 0 THEN {<<>>}
    ELSE {SubSeq(p, 1, k - 1) \o <<n>> \o SubSeq(p, k, n - 1) :
            p \in Perms(n - 1), k \in 1..n}

-----------------------------------------------------------------------------
(* Bounds and input sets                                                   *)

MaxMarkets == 3

\* Country codes of the rows, in table order.
Codes == <<"AUS", "SGP", "JPN", "IND", "KOR", "VNM">>

\* Standardized values (tenths) a market may hold in a column.
ZValues(col) ==
    IF col = "market_size_score_standardized" THEN {-5, 10} ELSE {0, 15}

\* Weight keys a caller may use: two mapped criteria and one unmapped name.
InKeys == {"market_size", "purchasing_power", "brand_strength"}

\* Weight values (hundredths) a caller may give to a key.
WValues(k) ==
    IF k = "market_size" THEN {0, 50, 100}
    ELSE IF k = "purchasing_power" THEN {0, 50, 100}
    ELSE {50}

-----------------------------------------------------------------------------
(* MarketScorer                                                            *)

\* scoring.py:40-46
feature_mapping ==
    [market_size       |-> "market_size_score_standardized",
     purchasing_power  |-> "purchasing_power_score_standardized",
     digital_readiness |-> "digital_readiness_score_standardized",
     governance_risk   |-> "governance_risk_score_standardized",
     corruption_risk   |-> "corruption_risk_score_standardized"]

\* feature_mapping.get(weight_name): "None" for a name that is no key.
MappedCol(k) == IF k \in DOMAIN feature_mapping THEN feature_mapping[k] ELSE "None"

\* sum(self.weights.values()), as a numerator over w.den
WeightSum(w) == SumSet(w.num, DOMAIN w.num)

\* abs(total - 1.0) > 0.01
SumOff(w) == 100 * Abs(WeightSum(w) - w.den) > w.den

\* Faulty variant: a constructor that rescales the weights to sum to 1 when they
\* are off (what the dashboard does before it builds its scorer).
StoredWeightsNormalized(w) ==
    IF SumOff(w) /\ WeightSum(w) > 0
    THEN [num |-> w.num, den |-> WeightSum(w)]
    ELSE w

\* __init__: self.weights = weights
StoredWeights(w) == w

\* _validate_weights: a warning, nothing else.
ValidateWarnings(w) ==
    IF SumOff(w) THEN {[kind |-> "weights_sum", name |-> "None"]} ELSE {}

\* Faulty variant of the guard of the scoring loop: only the mapping is consulted.
HasFeatureUnguarded(k, t) == MappedCol(k) # "None"

\* `feature_col and feature_col in df.columns`
HasFeature(k, t) == MappedCol(k) # "None" /\ MappedCol(k) \in t.columns

\* The keys of w whose weighted column is added to total_score.
UsedKeys(w, t) == {k \in DOMAIN w.num : HasFeature(k, t)}

\* df[feature_col] raises KeyError when the table has no such column.
LookupFails(w, t) == \E k \in UsedKeys(w, t) : MappedCol(k) \notin t.columns

\* Faulty variant of one term of the weighted sum: the weight is dropped.
ContributionUnweighted(w, k, row) == row.v[MappedCol(k)]

\* weight_value * df[feature_col], for one row
Contribution(w, k, row) == w.num[k] * row.v[MappedCol(k)]

\* total_score of one row: 0.0 plus the contributions of the used keys.
TotalScore(w, t, row) ==
    LET c == [k \in UsedKeys(w, t) |-> Contribution(w, k, row)]
    IN  SumSet(c, UsedKeys(w, t))

\* The warnings of the scoring loop: one per key without a column.
MissingWarnings(w, t) ==
    {[kind |-> "missing_feature", name |-> k] : k \in DOMAIN w.num \ UsedKeys(w, t)}

RECURSIVE InsertDesc(_, _)
InsertDesc(x, s) ==
    IF s = <<>> THEN <<x>>
    ELSE IF x >= Head(s) THEN <<x>> \o s
    ELSE <<Head(s)>> \o InsertDesc(x, Tail(s))

RECURSIVE SortDesc(_)
\* The values in descending order.
SortDesc(s) == IF s = <<>> THEN <<>> ELSE InsertDesc(Head(s), SortDesc(Tail(s)))

\* Faulty variant: rank(method="dense"): the number of distinct higher values, plus 1.
RankDense(scores, i) ==
    Cardinality({scores[j] : j \in {j \in DOMAIN scores : scores[j] > scores[i]}}) + 1

\* Faulty variant: ascending=True.
RankAscending(scores, i) ==
    Cardinality({j \in DOMAIN scores : scores[j] < scores[i]}) + 1

\* Series.rank(ascending=False, method="min"): a value's rank is the first
\* position its group of equal values takes in the descending order.
RankMin(scores, i) ==
    LET sorted == SortDesc(scores)
    IN  CHOOSE p \in DOMAIN sorted :
            /\ sorted[p] = scores[i]
            /\ \A q \in 1..(p - 1) : sorted[q] # scores[i]

\* The rows of score_markets before the final sort, in the table's order.
ScoredRows(w, t) ==
    LET totals == [i \in DOMAIN t.rows |-> TotalScore(w, t, t.rows[i])]
    IN  [i \in DOMAIN t.rows |->
            [country_code |-> t.rows[i].country_code,
             v            |-> t.rows[i].v,
             total_score  |-> totals[i],
             comp         |-> [k \in UsedKeys(w, t) |-> Contribution(w, k, t.rows[i])],
             rank         |-> RankMin(totals, i)]]

\* Where sort_values puts row i: after the rows of lower rank and, among the
\* rows of equal rank, after those that the priority pri places first.
Position(rows, pri, i) ==
    1 + Cardinality({j \in DOMAIN rows :
                        \/ rows[j].rank < rows[i].rank
                        \/ rows[j].rank = rows[i].rank /\ pri[j] < pri[i]})

\* Faulty variant: the table is returned unsorted.
OrderByUnsorted(rows, pri) == rows

\* df.sort_values("rank"): the default sort is not stable, so the order of rows
\* of equal rank is open; pri (a permutation of the positions) fixes it.
OrderBy(rows, pri) ==
    LET pos == [i \in DOMAIN rows |-> Position(rows, pri, i)]
    IN  [k \in DOMAIN rows |-> rows[CHOOSE i \in DOMAIN rows : pos[i] = k]]

\* The tables score_markets(t) may return for a scorer with weights w: one
\* for each way of placing the rows of equal rank.
ScoreResults(w, t) ==
    LET rows == ScoredRows(w, t)
    IN  {[columns |-> t.columns, den |-> w.den, rows |-> OrderBy(rows, pri)] :
            pri \in Perms(Len(t.rows))}

NoTable == [columns |-> {}, den |-> 1, rows |-> <<>>]

-----------------------------------------------------------------------------
(* Inputs of the scorer                                                    *)

InCols == {feature_mapping["market_size"], feature_mapping["purchasing_power"]}

\* The weight vectors a caller passes in: market_size and any of the other keys.
WeightVectors ==
    {[num |-> n, den |-> 100] :
        n \in UNION {{f \in [K -> {0, 50, 100}] : \A k \in K : f[k] \in WValues(k)} :
                        K \in {K \in SUBSET InKeys : "market_size" \in K}}}

\* The feature tables: 1..MaxMarkets rows over any set of the columns.
Tables ==
    UNION {UNION {
        {[columns |-> C,
          rows    |-> [i \in 1..n |-> [country_code |-> Codes[i], v |-> vs[i]]]] :
            vs \in [1..n -> {v \in [C -> {-5, 0, 10, 15}] : \A c \in C : v[c] \in ZValues(c)}]}
        : n \in 1..MaxMarkets} : C \in SUBSET InCols}

-----------------------------------------------------------------------------
(* The scorer as a state machine                                           *)

NoCall == [op |-> "none"]

\* No calculate_payback_period call has returned yet.
NoPayback == "none"

\* No run_full_sensitivity call has returned yet.
NoFull == <<>>

\* No generate_scenarios call has returned yet.
NoScenarios == <<>>

\* No calculate_payback_distribution call has returned yet.
NoDist == [payback_df |-> <<>>, stats_dict |-> "none"]

\* The simulator stands by: nothing simulated, the generator in its first state.
IdleMC ==
    /\ rng = 0
    /\ sims = <<>>
    /\ panel = <<>>
    /\ summary = <<>>
    /\ seen = <<>>
    /\ paydist = NoDist

\* MarketScorer(w), then nothing called yet.
Constructed(w, t) ==
    /\ given = w
    /\ weights = StoredWeights(w)
    /\ warnings = ValidateWarnings(w)
    /\ df = t
    /\ call = NoCall
    /\ status = "none"
    /\ scored = NoTable
    /\ tested = <<>>
    /\ points = <<>>
    /\ assumptions = <<>>
    /\ forecast = <<>>
    /\ payback = NoPayback
    /\ scenarios = NoScenarios
    /\ sweeps = <<>>
    /\ full = NoFull
    /\ IdleMC

Init == \E w \in WeightVectors, t \in Tables : Constructed(w, t)

\* scorer.score_markets(df)
ScoreMarkets ==
    /\ call = NoCall
    /\ call' = [op |-> "score_markets"]
    /\ IF LookupFails(weights, df)
       THEN /\ status' = "KeyError"
            /\ UNCHANGED <<scored, warnings>>
       ELSE /\ status' = "ok"
            /\ warnings' = warnings \cup MissingWarnings(weights, df)
            /\ scored' \in ScoreResults(weights, df)
    /\ UNCHANGED <<given, weights, df, tested, points, assumptions, scenarios, sensvars, forecast, payback, mcvars>>

Next == ScoreMarkets

Spec == Init /\ [][Next]_vars

-----------------------------------------------------------------------------
(* sensitivity_analysis                                                    *)

MaxPoints == 3
MaxSensMarkets == 4

\* The step sizes (hundredths) a caller may pass: 0.05, 0.5 and 1.0.
Steps == {5, 50, 100}

\* The names a caller may ask to vary: the weight keys and a mapped criterion
\* that the input vectors never hold.
SweepNames == InKeys \cup {"digital_readiness"}

\* Faulty variant of the guard: the name is looked up in the mapping, not in the weights.
KnownWeightByMapping(w, name) == name \in DOMAIN feature_mapping

\* `weight_name not in self.weights`, negated
KnownWeight(w, name) == name \in DOMAIN w.num

\* sum(v for k, v in self.weights.items() if k != weight_name), over w.den
OtherWeightsSum(w, name) == SumSet(w.num, DOMAIN w.num \ {name})

\* `step * n_runs // 2`: the floor of half the product, a whole number of 1.0s
\* (step is in hundredths).
HalfRange(step, n) == (step * n) \div 200

\* max(0.0, original_weight - half), over w.den
MinWeight(w, name, step, n) == Max(0, w.num[name] - HalfRange(step, n) * w.den)

\* min(1.0, original_weight + half), over w.den
MaxWeight(w, name, step, n) == Min(w.den, w.num[name] + HalfRange(step, n) * w.den)

\* np.linspace(min_weight, max_weight, n_runs): value i is
\* min + (i-1) * (max - min) / (n-1), kept over the denominator den * (n-1);
\* a single point is min itself.
WeightValues(w, name, step, n) ==
    LET lo == MinWeight(w, name, step, n)
        hi == MaxWeight(w, name, step, n)
        m  == Max(1, n - 1)
    IN  [i \in 1..n |-> [num |-> lo * m + (i - 1) * (hi - lo), den |-> w.den * m]]

\* Faulty variant: what is left of 1 is spread evenly over the other keys,
\* whatever their base values.
TestWeightsEvenly(w, name, t) ==
    LET others == DOMAIN w.num \ {name}
        c      == Cardinality(others)
    IN  IF OtherWeightsSum(w, name) > 0
        THEN [num |-> [k \in DOMAIN w.num |->
                        IF k = name THEN t.num * c ELSE t.den - t.num],
              den |-> t.den * c]
        ELSE [num |-> [k \in DOMAIN w.num |->
                        IF k = name THEN t.num ELSE w.num[k] * (t.den \div w.den)],
              den |-> t.den]

\* Faulty variant: the other weights are copied and never rescaled.
TestWeightsUnscaled(w, name, t) ==
    [num |-> [k \in DOMAIN w.num |->
                IF k = name THEN t.num ELSE w.num[k] * (t.den \div w.den)],
     den |-> t.den]

\* test_weights for the tested value t = t.num / t.den: the tested key is set
\* to t and, when the others sum to more than 0, each other weight is
\* multiplied by (1 - t) / other_weights_sum.
TestWeights(w, name, t) ==
    LET other == OtherWeightsSum(w, name)
    IN  IF other > 0
        THEN [num |-> [k \in DOMAIN w.num |->
                        IF k = name THEN t.num * other
                        ELSE w.num[k] * (t.den - t.num)],
              den |-> t.den * other]
        ELSE [num |-> [k \in DOMAIN w.num |->
                        IF k = name THEN t.num ELSE w.num[k] * (t.den \div w.den)],
              den |-> t.den]

\* The weight vectors handed to MarketScorer(test_weights), in order.
TestVectors(w, name, step, n) ==
    LET tv == WeightValues(w, name, step, n)
    IN  [i \in 1..n |-> TestWeights(w, name, tv[i])]

\* scored[scored["country_code"] == code]["total_score"].iloc[0]
FirstScoreOf(rows, code) ==
    LET j == CHOOSE j \in DOMAIN rows :
                /\ rows[j].country_code = code
                /\ \A q \in 1..(j - 1) : rows[q].country_code # code
    IN  rows[j].total_score

\* Faulty variant: a point for every row of the scored table, head(3) left out.
PointsOfAll(name, t, den, sorted) ==
    [i \in 1..Len(sorted) |->
        [weight_name  |-> name,
         weight_value |-> t,
         country_code |-> sorted[i].country_code,
         rank         |-> sorted[i].rank,
         total_score  |-> FirstScoreOf(sorted, sorted[i].country_code),
         den          |-> den]]

\* The points recorded for one tested value t from the rows of the scored
\* table: one per row of scored.head(3).
PointsOf(name, t, den, sorted) ==
    LET rows == sorted
    IN
    [i \in 1..Min(3, Len(rows)) |->
        [weight_name  |-> name,
         weight_value |-> t,
         country_code |-> rows[i].country_code,
         rank         |-> rows[i].rank,
         total_score  |-> FirstScoreOf(rows, rows[i].country_code),
         den          |-> den]]

\* The rows each scorer of the loop computes, before its sort.
SweepRows(w, t, name, step, n) ==
    LET tw == TestVectors(w, name, step, n)
    IN  [i \in 1..n |-> ScoredRows(tw[i], t)]

RECURSIVE Flatten(_)
Flatten(ss) == IF ss = <<>> THEN <<>> ELSE Head(ss) \o Flatten(Tail(ss))

\* The result list the loop over the tested values builds.  The order of
\* equally ranked rows is open: any priority pri, the same at every tested value.
SweepResults(name, tvals, tvecs, rowsAt, pri) ==
    Flatten([i \in DOMAIN tvals |->
                PointsOf(name, tvals[i], tvecs[i].den, OrderBy(rowsAt[i], pri))])

\* What the scorers built inside the loop print.
SweepWarnings(w, t, name, step, n) ==
    LET tw == TestVectors(w, name, step, n)
    IN  UNION {ValidateWarnings(tw[i]) \cup MissingWarnings(tw[i], t) : i \in 1..n}

\* scorer.sensitivity_analysis(df, weight_name, step, n_runs)
SensitivityAnalysis(name, step, n) ==
    /\ call = NoCall
    /\ call' = [op |-> "sensitivity_analysis", weight_name |-> name,
                step |-> step, n_runs |-> n]
    /\ IF ~KnownWeight(weights, name)
       THEN /\ status' = "ValueError"
            /\ tested' = <<>>
            /\ points' = <<>>
            /\ UNCHANGED warnings
       ELSE IF name \notin DOMAIN weights.num
       THEN \* self.weights[weight_name] on a name that is no key
            /\ status' = "KeyError"
            /\ tested' = <<>>
            /\ points' = <<>>
            /\ UNCHANGED warnings
       ELSE IF \E i \in 1..n : LookupFails(TestVectors(weights, name, step, n)[i], df)
       THEN /\ status' = "KeyError"
            /\ tested' = <<>>
            /\ points' = <<>>
            /\ UNCHANGED warnings
       ELSE /\ status' = "ok"
            /\ tested' = TestVectors(weights, name, step, n)
            /\ \E tvals  \in {WeightValues(weights, name, step, n)},
                  tvecs  \in {TestVectors(weights, name, step, n)},
                  rowsAt \in {SweepRows(weights, df, name, step, n)} :
                  points' \in {SweepResults(name, tvals, tvecs, rowsAt, pri) :
                                    pri \in Perms(Len(df.rows))}
            /\ warnings' = warnings \cup SweepWarnings(weights, df, name, step, n)
    /\ UNCHANGED <<given, weights, df, scored, assumptions, scenarios, sensvars, forecast, payback, mcvars>>

\* The rows the swept tables are made of, by position.
SensRowValues ==
    <<[ms |-> 10, pp |-> 0], [ms |-> 0, pp |-> 10], [ms |-> -5, pp |-> 10],
      [ms |-> 10, pp |-> 10], [ms |-> 0, pp |-> 0], [ms |-> -5, pp |-> 0]>>

\* The feature tables of the sweeps: the first n rows, over both columns.
SensTables ==
    {[columns |-> C,
      rows    |-> [i \in 1..n |->
                    [country_code |-> Codes[i],
                     v |-> [c \in C |-> IF c = feature_mapping["market_size"]
                                        THEN SensRowValues[i].ms
                                        ELSE SensRowValues[i].pp]]]] :
        n \in 1..MaxSensMarkets, C \in {InCols}}

InitSens == \E w \in WeightVectors, t \in SensTables : Constructed(w, t)

NextSens == \E name \in SweepNames, step \in Steps, n \in 1..MaxPoints :
                SensitivityAnalysis(name, step, n)

SpecSens == InitSens /\ [][NextSens]_vars

-----------------------------------------------------------------------------
(* Repeated sweeps on one scorer, and run_full_sensitivity                 *)

MaxSweeps == 2

\* Faulty variant: test_weights = self.weights without copy(), so the loop
\* writes the scorer's own dictionary and leaves the last test vector in it.
WeightsAfterSweepAliased(w, tw) == IF tw = <<>> THEN w ELSE tw[Len(tw)]

\* self.weights after the loop: test_weights is a copy, the loop writes the
\* copy only.
WeightsAfterSweep(w, tw) == w

\* What sensitivity_analysis(t, name, step, n) does on a scorer whose weights
\* are w, the rows of equal rank placed by pri: how it ends, the vectors it
\* tests, the table it returns, what it prints and the weights it leaves.
SweepOutcome(w, t, name, step, n, pri) ==
    IF ~KnownWeight(w, name)
    THEN [status |-> "ValueError", tested |-> <<>>, points |-> <<>>,
          printed |-> {}, weights |-> w]
    ELSE IF \E i \in 1..n : LookupFails(TestVectors(w, name, step, n)[i], t)
    THEN [status |-> "KeyError", tested |-> <<>>, points |-> <<>>,
          printed |-> {}, weights |-> w]
    ELSE LET tv == TestVectors(w, name, step, n)
         IN  [status  |-> "ok",
              tested  |-> tv,
              points  |-> SweepResults(name, WeightValues(w, name, step, n), tv,
                                       SweepRows(w, t, name, step, n), pri),
              printed |-> SweepWarnings(w, t, name, step, n),
              weights |-> WeightsAfterSweep(w, tv)]

\* scorer.sensitivity_analysis(df, weight_name, step, n_runs), on a scorer
\* that may have been swept before.
SweepAgain(name, step, n) ==
    /\ Len(sweeps) < MaxSweeps
    /\ call.op # "run_full_sensitivity"
    /\ \E pri \in Perms(Len(df.rows)) :
          \E o \in {SweepOutcome(weights, df, name, step, n, pri)} :
              /\ call' = [op |-> "sensitivity_analysis", weight_name |-> name,
                          step |-> step, n_runs |-> n]
              /\ status' = o.status
              /\ tested' = o.tested
              /\ points' = o.points
              /\ warnings' = warnings \cup o.printed
              /\ weights' = o.weights
              /\ sweeps' = Append(sweeps, [weight_name |-> name, step |-> step,
                                           n_runs |-> n, status |-> o.status,
                                           points |-> o.points])
    /\ UNCHANGED <<given, df, scored, full, assumptions, forecast, payback, scenarios, mcvars>>

RECURSIVE FullLoop(_, _, _, _, _, _, _)
\* for weight_name in weights.keys(): results[weight_name] = sens_df, on one
\* scorer; keys is what is left of weights.keys(), w the scorer's weights.
FullLoop(keys, w, t, step, n, pri, acc) ==
    IF keys = <<>> THEN acc
    ELSE LET o == SweepOutcome(w, t, Head(keys), step, n, pri)
         IN  FullLoop(Tail(keys), o.weights, t, step, n, pri,
                      [results |-> Append(acc.results, [weight_name |-> Head(keys),
                                                         points |-> o.points]),
                       tested  |-> o.tested,
                       printed |-> acc.printed \cup o.printed,
                       weights |-> o.weights,
                       failed  |-> acc.failed \/ o.status # "ok"])

\* The orders in which a dictionary with these keys may list them.
KeyOrders(K) ==
    {order \in [1..Cardinality(K) -> K] : \A k \in K : \E i \in DOMAIN order : order[i] = k}

\* run_full_sensitivity(df, weights, step, n_runs): a scorer of its own over
\* the weights dictionary, one sweep per key, the results by weight name.
RunFullSensitivity(step, n) ==
    /\ call = NoCall
    /\ call' = [op |-> "run_full_sensitivity", step |-> step, n_runs |-> n]
    /\ \E keys \in KeyOrders(DOMAIN given.num), pri \in Perms(Len(df.rows)) :
          \E r \in {FullLoop(keys, StoredWeights(given), df, step, n, pri,
                             [results |-> <<>>, tested |-> <<>>, printed |-> {},
                              weights |-> StoredWeights(given), failed |-> FALSE])} :
              /\ status' = IF r.failed THEN "KeyError" ELSE "ok"
              /\ full' = IF r.failed THEN NoFull ELSE r.results
              /\ warnings' = warnings \cup r.printed
              /\ weights' = r.weights
    /\ UNCHANGED <<given, df, scored, tested, points, sweeps, assumptions, forecast,
                   payback, scenarios, mcvars>>

\* The step size (hundredths) and the number of points of the repeated
\* sweeps: 1.0 with two points, so that the tested values are 0 and 1 and
\* leave the base weight.
FullSteps == {100}
FullPoints == {2}

\* The tables of the repeated sweeps: two markets.
FullTables == {t \in SensTables : Len(t.rows) = 2}

\* The base vectors of the repeated sweeps: two keys or more, summing to 1.
FullWeights ==
    {w \in WeightVectors : Cardinality(DOMAIN w.num) >= 2 /\ WeightSum(w) = w.den}

InitFull == \E w \in FullWeights, t \in FullTables : Constructed(w, t)

NextFull ==
    \/ \E name \in SweepNames, step \in FullSteps, n \in FullPoints :
            SweepAgain(name, step, n)
    \/ \E step \in FullSteps, n \in FullPoints : RunFullSensitivity(step, n)

SpecFull == InitFull /\ [][NextFull]_vars

-----------------------------------------------------------------------------
(* RevenueForecaster                                                       *)

MaxMonths == 5

\* Faulty variant: a missing field reads as 0, the default is not used.
GetZero(a, key, default) == IF key \in DOMAIN a THEN a[key] ELSE 0

\* dict.get(key, default) on the assumptions, whose fields are kept flat: a
\* missing section reads as all of its fields missing.
Get(a, key, default) == IF key \in DOMAIN a THEN a[key] ELSE default

\* int(n / d): Python's int() drops the fraction, towards zero.
Trunc(n, d) == IF n >= 0 THEN n \div d ELSE -((-n) \div d)

\* Faulty variant: a plain else in place of elif: every tag other than "base"
\* and "optimistic" takes the pessimistic branch.
ScenarioFactorsStrict(scenario) ==
    IF scenario = "base" THEN [rate |-> 10, churn |-> 10, adj |-> 100]
    ELSE IF scenario = "optimistic" THEN [rate |-> 12, churn |-> 8, adj |-> 115]
    ELSE [rate |-> 8, churn |-> 12, adj |-> 85]

\* Faulty variant: the scenario tag is not looked at.
ScenarioFactorsUnapplied(scenario) == [rate |-> 10, churn |-> 10, adj |-> 100]

\* The scenario multipliers, in tenths (rates, churn) and hundredths
\* (market_adjustment); any other tag takes neither branch.
ScenarioFactors(scenario) ==
    IF scenario = "optimistic" THEN [rate |-> 12, churn |-> 8, adj |-> 115]
    ELSE IF scenario = "pessimistic" THEN [rate |-> 8, churn |-> 12, adj |-> 85]
    ELSE [rate |-> 10, churn |-> 10, adj |-> 100]

\* The products leads_per_month * market_adjustment (the latter already
\* multiplied by the scenario factor adj) whose binary64 value lies just
\* below their whole exact value: 100 * (1.0 * 1.15) is 114.99999999999999 and
\* 120 * (1.5 * 1.15) is 206.99999999999997.  Every other product of the
\* inputs used here has the whole part of its exact value.
JustBelowWhole == {<<100, 100, 115>>, <<120, 150, 115>>}

\* int(leads_per_month * market_adjustment): the binary64 product, its
\* fraction dropped.
LeadsPerMonth(leads, market_adjustment, adj) ==
    Trunc(leads * market_adjustment * adj, 10000)
        - (IF <<leads, market_adjustment, adj>> \in JustBelowWhole THEN 1 ELSE 0)

\* The values the monthly loop works with, after the scenario adjustments:
\* lead_to_opp and opp_to_win over 1000, monthly_churn over 10000,
\* market_adjustment over 10000.
LoopInputs(a, months, market_adjustment, scenario) ==
    LET f == ScenarioFactors(scenario)
    IN  [months          |-> months,
         lead_to_opp     |-> Get(a, "lead_to_opportunity", 18) * f.rate,
         opp_to_win      |-> Get(a, "opportunity_to_win", 22) * f.rate,
         monthly_churn   |-> Get(a, "monthly_churn", 18) * f.churn,
         sales_cycle     |-> Get(a, "sales_cycle_months", 2),
         acv             |-> Get(a, "acv_usd", 18),
         cac             |-> Get(a, "cac_usd_per_customer", 14),
         gross_margin    |-> Get(a, "gross_margin", 82),
         leads_per_month |-> LeadsPerMonth(Get(a, "leads_per_month_initial", 120),
                                           market_adjustment, f.adj)]

\* Faulty variant: range(1, months).
LastMonthExclusive(months) == months - 1

\* range(1, months + 1) ends with months.
LastMonth(months) == months

\* Faulty variant: the update without its max(0, ...).
NextActiveUnclamped(active_customers, churned, new_wins) ==
    active_customers - churned + new_wins

\* max(0, active_customers - churned + new_wins)
NextActive(active_customers, churned, new_wins) ==
    Max(0, active_customers - churned + new_wins)

\* Faulty variant: month > sales_cycle, the funnel opens a month late.
SalesCycleOpenLate(month, sales_cycle) == month > sales_cycle

\* if month >= sales_cycle
SalesCycleOpen(month, sales_cycle) == month >= sales_cycle

\* Faulty variant: churn taken on the customers after this month's wins.
ChurnedOfAfterWins(active_customers, new_wins, monthly_churn) ==
    Trunc((active_customers + new_wins) * monthly_churn, 10000)

\* churned = int(active_customers * monthly_churn), on the customers active
\* at the end of the month before; new_wins plays no part.
ChurnedOf(active_customers, new_wins, monthly_churn) ==
    Trunc(active_customers * monthly_churn, 10000)

RECURSIVE SumNet(_)
\* sum(r["net_revenue"] for r in results)
SumNet(results) ==
    IF results = <<>> THEN 0 ELSE Head(results).net_revenue + SumNet(Tail(results))

\* Faulty variant: the sum taken after the current record joined results, and
\* the current month added again.
CumulativeNetTwice(results, net_revenue) == SumNet(results) + 2 * net_revenue

\* sum(r["net_revenue"] for r in results) + (gross_revenue - acquisition_cost),
\* results holding the months before the current one.
CumulativeNet(results, net_revenue) == SumNet(results) + net_revenue

\* One pass of the monthly loop: the record appended for `month`.
MonthRecord(p, month, active_customers, total_acquisition_cost, results) ==
    LET new_leads        == p.leads_per_month
        open             == SalesCycleOpen(month, p.sales_cycle)
        opps_from_month  == IF open THEN new_leads * p.lead_to_opp ELSE 0
        new_wins         == IF open
                            THEN Trunc(opps_from_month * p.opp_to_win, 1000000)
                            ELSE 0
        churned          == ChurnedOf(active_customers, new_wins, p.monthly_churn)
        active           == NextActive(active_customers, churned, new_wins)
        monthly_revenue  == active * p.acv * 100
        acquisition_cost == new_wins * p.cac * 1200
        gross_revenue    == active * p.acv * p.gross_margin
    IN  [month                       |-> month,
         new_leads                   |-> new_leads,
         new_opportunities           |-> IF open
                                         THEN Trunc(opps_from_month, 1000) ELSE 0,
         new_wins                    |-> new_wins,
         churned                     |-> churned,
         active_customers            |-> active,
         monthly_revenue             |-> monthly_revenue,
         gross_revenue               |-> gross_revenue,
         acquisition_cost            |-> acquisition_cost,
         cumulative_acquisition_cost |-> total_acquisition_cost + acquisition_cost,
         net_revenue                 |-> gross_revenue - acquisition_cost,
         cumulative_net_revenue      |-> CumulativeNet(results,
                                                       gross_revenue - acquisition_cost)]

RECURSIVE ForecastLoop(_, _, _, _, _)
\* for month in range(1, months + 1): ...
ForecastLoop(p, month, active_customers, total_acquisition_cost, results) ==
    IF month > LastMonth(p.months) THEN results
    ELSE LET r == MonthRecord(p, month, active_customers, total_acquisition_cost, results)
         IN  ForecastLoop(p, month + 1, r.active_customers,
                          r.cumulative_acquisition_cost, Append(results, r))

\* forecaster.forecast_revenue(months, market_adjustment, scenario)
ForecastRevenue(months, market_adjustment, scenario) ==
    /\ call = NoCall
    /\ call' = [op |-> "forecast_revenue", months |-> months,
                market_adjustment |-> market_adjustment, scenario |-> scenario]
    /\ status' = "ok"
    /\ forecast' = ForecastLoop(LoopInputs(assumptions, months, market_adjustment, scenario),
                                1, 0, 0, <<>>)
    /\ UNCHANGED <<given, weights, warnings, df, scored, tested, points, assumptions, scenarios, sensvars,
                   payback, mcvars>>

\* for scenario in ["base", "optimistic", "pessimistic"]
ScenarioTags == {"base", "optimistic", "pessimistic"}

\* Faulty variant: the optimistic and pessimistic tables change places.
ScenarioOfSwapped(tag) ==
    IF tag = "optimistic" THEN "pessimistic"
    ELSE IF tag = "pessimistic" THEN "optimistic" ELSE tag

\* scenarios[scenario] is the forecast run with scenario=scenario.
ScenarioOf(tag) == tag

\* generate_scenarios(assumptions, market_adjustment, months): one forecaster,
\* three forecast_revenue calls, the last one for "pessimistic".
GenerateScenarios(months, market_adjustment) ==
    /\ call = NoCall
    /\ call' = [op |-> "generate_scenarios", months |-> months,
                market_adjustment |-> market_adjustment]
    /\ status' = "ok"
    /\ scenarios' = [tag \in ScenarioTags |->
                        ForecastLoop(LoopInputs(assumptions, months, market_adjustment,
                                                ScenarioOf(tag)),
                                     1, 0, 0, <<>>)]
    /\ forecast' = scenarios'["pessimistic"]
    /\ UNCHANGED <<given, weights, warnings, df, scored, tested, points, sensvars,
                   assumptions, payback, mcvars>>

\* Faulty variant: iloc[-1], the last month that reaches entry_cost.
PaybackMonthLast(rows, entry_cost) ==
    LET hit == {i \in DOMAIN rows : rows[i].cumulative_net_revenue >= entry_cost * 1200}
    IN  IF hit = {} THEN -1
        ELSE rows[CHOOSE i \in hit : \A j \in hit : i >= j].month

\* payback_mask = cumulative_net >= entry_cost; the month of the first row of
\* forecast_df[payback_mask], or -1.0 when the mask is nowhere true.
\* entry_cost is in thousands of USD.
PaybackMonth(rows, entry_cost) ==
    LET hit == {i \in DOMAIN rows : rows[i].cumulative_net_revenue >= entry_cost * 1200}
    IN  IF hit = {} THEN -1
        ELSE rows[CHOOSE i \in hit : \A j \in hit : i <= j].month

\* forecaster.calculate_payback_period(forecast_df, entry_cost), on the table
\* the last forecast_revenue call returned.
CalculatePaybackPeriod(entry_cost) ==
    /\ call.op = "forecast_revenue"
    /\ call' = [op |-> "calculate_payback_period", entry_cost |-> entry_cost]
    /\ status' = "ok"
    /\ payback' = PaybackMonth(forecast, entry_cost)
    /\ UNCHANGED <<given, weights, warnings, df, scored, tested, points, assumptions, scenarios, sensvars,
                   forecast, mcvars>>

\* The assumptions with every field given.
FullAssumptions ==
    {[leads_per_month_initial |-> leads,
      lead_to_opportunity     |-> l2o,
      opportunity_to_win      |-> o2w,
      sales_cycle_months      |-> cycle,
      monthly_churn           |-> churn,
      acv_usd                 |-> 20,
      gross_margin            |-> 80,
      cac_usd_per_customer    |-> cac] :
        leads \in {10, 100}, l2o \in {20, 50}, o2w \in {25, 50},
        cycle \in {1, 2, 3}, churn \in {20, 500, 2500}, cac \in {1, 15}}

\* The fields a configuration may leave out.
OptionalFields == {"leads_per_month_initial", "cac_usd_per_customer"}

\* The assumptions a forecaster is built with.
AssumptionSets ==
    {[k \in DOMAIN a \ O |-> a[k]] : a \in FullAssumptions, O \in SUBSET OptionalFields}

\* market_adjustment, in hundredths: 0.5, 1.0, 1.5
Adjustments == {50, 100, 150}

Scenarios == {"base", "optimistic", "pessimistic", "stress"}

\* entry_cost, in thousands of USD: nothing, 1,000 and the default 120,000.
EntryCosts == {0, 1, 120}

\* The scorer stands by while the forecaster is exercised.
IdleWeights == [num |-> [market_size |-> 100], den |-> 100]
IdleTable == [columns |-> {}, rows |-> <<>>]

InitForecast ==
    \E a \in AssumptionSets :
        /\ given = IdleWeights
        /\ weights = StoredWeights(IdleWeights)
        /\ warnings = ValidateWarnings(IdleWeights)
        /\ df = IdleTable
        /\ call = NoCall
        /\ status = "none"
        /\ scored = NoTable
        /\ tested = <<>>
        /\ points = <<>>
        /\ assumptions = a
        /\ forecast = <<>>
        /\ payback = NoPayback
        /\ scenarios = NoScenarios
        /\ sweeps = <<>>
        /\ full = NoFull
        /\ IdleMC

NextForecast ==
    \/ \E months \in 1..MaxMonths, adj \in Adjustments, scenario \in Scenarios :
            ForecastRevenue(months, adj, scenario)
    \/ \E entry_cost \in EntryCosts : CalculatePaybackPeriod(entry_cost)
    \/ \E months \in 1..MaxMonths, adj \in Adjustments :
            GenerateScenarios(months, adj)

SpecForecast == InitForecast /\ [][NextForecast]_vars

-----------------------------------------------------------------------------
(* MonteCarloSimulator                                                     *)
(*                                                                         *)
(* Numbers.  Rates are integer counts of thousandths, market_adjustment    *)
(* of hundredths, cac and acv whole USD (acv a multiple of 12), and the     *)
(* money fields of a panel row whole cents.                                *)
(*                                                                         *)
(* np.random is one process-wide generator: seed() puts it in a state that *)
(* depends on the seed alone, every draw moves it one step on and returns  *)
(* a value that depends on the state reached.  A small congruential        *)
(* generator stands for it; a normal draw lands on loc + z * scale for z   *)
(* one of -3, -1, 0, 1, 3; a Poisson draw lands within 1 of the whole part *)
(* of its mean; a binomial draw lands anywhere in 0..n.  A draw whose      *)
(* outcome is certain (mean 0, n = 0) takes nothing from the generator.    *)

MaxSims == 2
MaxSimMonths == 2
MaxRuns == 2
MaxOtherDraws == 2

\* The argument of np.random.seed
Seed == 42

\* The number of states of the generator.
RngStates == 64

\* np.random.seed(seed): the state depends on the seed alone.
Seeded(seed) == seed % RngStates

\* One draw moves the generator one step on.
Advance(s) == (21 * s + 11) % RngStates

\* Faulty variant: np.random.seed left out, the generator goes on from where it is.
SeedAtStartMissing(s) == s

\* Faulty variant: np.random.seed() without its argument, the new state is
\* not a fixed one.
SeedAtStartUnfixed(s) == Seeded(Seed + s)

\* np.random.seed(42) at the start of simulate_revenue
SeedAtStart(s) == Seeded(Seed)

\* How many standard deviations off the mean a normal draw lands.
ZTable == <<-3, -1, 0, 1, 3>>

\* np.random.normal(loc, scale)
NormalDraw(s, loc, scale) ==
    LET n == Advance(s)
    IN  [rng |-> n, value |-> loc + scale * ZTable[((n \div 4) % 5) + 1]]

\* np.random.poisson(lam), lam in hundredths
PoissonDraw(s, lam) ==
    IF lam = 0 THEN [rng |-> s, value |-> 0]
    ELSE LET n == Advance(s)
         IN  [rng |-> n, value |-> Max(0, (lam \div 100) + ((n \div 2) % 3) - 1)]

\* np.random.binomial(n, p), 0 < p < 1
BinomialDraw(s, n, p) ==
    IF n = 0 THEN [rng |-> s, value |-> 0]
    ELSE LET m == Advance(s)
         IN  [rng |-> m, value |-> (m \div 2) % (n + 1)]

\* Faulty variant: the value passes through unclipped.
ClipMissing(x, lo, hi) == x

\* np.clip(x, lo, hi)
Clip(x, lo, hi) == Min(Max(x, lo), hi)

\* The base values and uncertainty parameters simulate_revenue reads from the
\* assumptions, with the defaults of its .get calls.
BaseValues(a, months, n_sims, market_adjustment) ==
    [months           |-> months,
     n_sims           |-> n_sims,
     base_leads       |-> Get(a, "leads_per_month_initial", 120) * market_adjustment,
     base_lead_to_opp |-> Get(a, "lead_to_opportunity", 180),
     base_opp_to_win  |-> Get(a, "opportunity_to_win", 220),
     base_churn       |-> Get(a, "monthly_churn", 18),
     base_cac         |-> Get(a, "cac_usd_per_customer", 14000),
     acv              |-> Get(a, "acv_usd", 18000),
     gross_margin     |-> Get(a, "gross_margin", 82),
     sales_cycle      |-> Get(a, "sales_cycle_months", 2),
     lead_to_opp_sd   |-> Get(a, "lead_to_opportunity_sd", 40),
     opp_to_win_sd    |-> Get(a, "opportunity_to_win_sd", 50),
     churn_sd         |-> Get(a, "churn_sd", 6),
     cac_sd           |-> Get(a, "cac_sd", 2500)]

\* The four parameters sampled at the top of one simulation, and the
\* generator after them.
SampleParameters(b, s) ==
    LET d1 == NormalDraw(s, b.base_lead_to_opp, b.lead_to_opp_sd)
        d2 == NormalDraw(d1.rng, b.base_opp_to_win, b.opp_to_win_sd)
        d3 == NormalDraw(d2.rng, b.base_churn, b.churn_sd)
        d4 == NormalDraw(d3.rng, b.base_cac, b.cac_sd)
    IN  [rng         |-> d4.rng,
         lead_to_opp |-> Clip(d1.value, 50, 500),
         opp_to_win  |-> Clip(d2.value, 50, 500),
         churn_rate  |-> Clip(d3.value, 5, 50),
         cac         |-> Clip(d4.value, 8000, 25000)]

\* Faulty variant: the accumulators are not reset and carry over from the
\* simulation before.
StartOfSimulationCarried(s, prev) ==
    [rng |-> s, active_customers |-> prev.active_customers,
     total_revenue |-> prev.total_revenue, total_cost |-> prev.total_cost,
     monthly_results |-> <<>>, counts |-> <<>>]

\* active_customers = 0, total_revenue = 0, total_cost = 0, monthly_results = []
StartOfSimulation(s, prev) ==
    [rng |-> s, active_customers |-> 0, total_revenue |-> 0, total_cost |-> 0,
     monthly_results |-> <<>>, counts |-> <<>>]

\* One pass of the monthly loop of simulation `sim` with the sampled
\* parameters q, from the loop state st: the loop state after it.
SimMonth(b, q, sim, month, st) ==
    LET dl       == PoissonDraw(st.rng, b.base_leads)
        leads    == dl.value
        opps     == IF month >= b.sales_cycle THEN Trunc(leads * q.lead_to_opp, 1000) ELSE 0
        dw       == IF month >= b.sales_cycle
                    THEN BinomialDraw(dl.rng, opps, q.opp_to_win)
                    ELSE [rng |-> dl.rng, value |-> 0]
        wins     == dw.value
        dc       == BinomialDraw(dw.rng, st.active_customers, q.churn_rate)
        churned  == dc.value
        active_customers == Max(0, st.active_customers - churned + wins)
        monthly_revenue  == active_customers * (b.acv \div 12) * 100
        total_revenue    == st.total_revenue + monthly_revenue
        acquisition_cost == wins * q.cac * 100
        total_cost       == st.total_cost + acquisition_cost
    IN  [rng              |-> dc.rng,
         active_customers |-> active_customers,
         total_revenue    |-> total_revenue,
         total_cost       |-> total_cost,
         monthly_results  |-> Append(st.monthly_results,
            [simulation         |-> sim,
             month              |-> month,
             active_customers   |-> active_customers,
             monthly_revenue    |-> monthly_revenue,
             cumulative_revenue |-> (total_revenue \div 100) * b.gross_margin,
             cumulative_cost    |-> total_cost,
             net_revenue        |-> ((total_revenue \div 100) * b.gross_margin) - total_cost]),
         counts           |-> Append(st.counts,
            [leads |-> leads, opps |-> opps, wins |-> wins, churned |-> churned,
             p_wins    |-> IF month >= b.sales_cycle THEN q.opp_to_win ELSE 0,
             p_churned |-> q.churn_rate])]

RECURSIVE SimMonths(_, _, _, _, _)
\* for month in range(1, months + 1): ...
SimMonths(b, q, sim, month, st) ==
    IF month > b.months THEN st
    ELSE SimMonths(b, q, sim, month + 1, SimMonth(b, q, sim, month, st))

RECURSIVE SimLoop(_, _, _)
\* for sim in range(n_sims): ...   acc holds the generator, all_results, what
\* each simulation drew, and the loop state the simulation before ended in.
SimLoop(b, sim, acc) ==
    IF sim >= b.n_sims THEN acc
    ELSE LET q  == SampleParameters(b, acc.rng)
             st == SimMonths(b, q, sim, 1, StartOfSimulation(q.rng, acc.last))
         IN  SimLoop(b, sim + 1,
                [rng         |-> st.rng,
                 all_results |-> acc.all_results \o st.monthly_results,
                 sims        |-> Append(acc.sims,
                                    [lead_to_opp |-> q.lead_to_opp,
                                     opp_to_win  |-> q.opp_to_win,
                                     churn_rate  |-> q.churn_rate,
                                     cac         |-> q.cac,
                                     months      |-> st.counts]),
                 last        |-> st])

\* The loop over the simulations, from the generator state s.
RunSimulations(b, s) ==
    SimLoop(b, 0, [rng |-> s, all_results |-> <<>>, sims |-> <<>>,
                   last |-> [active_customers |-> 0, total_revenue |-> 0, total_cost |-> 0]])

RECURSIVE InsertAsc(_, _)
InsertAsc(x, s) ==
    IF s = <<>> THEN <<x>>
    ELSE IF x <= Head(s) THEN <<x>> \o s
    ELSE <<Head(s)>> \o InsertAsc(x, Tail(s))

RECURSIVE SortAsc(_)
\* The values in ascending order.
SortAsc(s) == IF s = <<>> THEN <<>> ELSE InsertAsc(Head(s), SortAsc(Tail(s)))

RECURSIVE SumSeq(_)
SumSeq(s) == IF s = <<>> THEN 0 ELSE Head(s) + SumSeq(Tail(s))

\* round(num / den) to a whole number, halves to the even neighbour (den > 0).
RoundHalfEven(num, den) ==
    LET q == num \div den
        r == num - q * den
    IN  IF 2 * r < den THEN q
        ELSE IF 2 * r > den THEN q + 1
        ELSE IF q % 2 = 0 THEN q ELSE q + 1

\* np.mean / "mean": a fraction
Mean(xs) == [num |-> SumSeq(xs), den |-> Len(xs)]

\* np.median / "median": the middle value, or the mean of the two middle ones
Median(xs) ==
    LET s == SortAsc(xs)
        n == Len(s)
    IN  IF n % 2 = 1 THEN [num |-> 2 * s[(n + 1) \div 2], den |-> 2]
        ELSE [num |-> s[n \div 2] + s[(n \div 2) + 1], den |-> 2]

\* np.percentile(xs, 10 * q): linear interpolation at index q/10 * (n - 1)
Percentile(xs, q) ==
    LET s  == SortAsc(xs)
        r  == q * (Len(s) - 1)
        lo == r \div 10
        fr == r % 10
    IN  [num |-> 10 * s[lo + 1] + (IF fr = 0 THEN 0 ELSE fr * (s[lo + 2] - s[lo + 1])),
         den |-> 10]

\* The standard deviation with ddof degrees of freedom taken off: NaN with no
\* degree of freedom left, 0 for a sample of equal values, and otherwise (not
\* a fraction) kept as the sample it is the deviation of.
Std(xs, ddof) ==
    IF Len(xs) <= ddof THEN [kind |-> "nan"]
    ELSE IF \A i, j \in DOMAIN xs : xs[i] = xs[j] THEN [kind |-> "value", value |-> 0]
    ELSE [kind |-> "std", of |-> SortAsc(xs), ddof |-> ddof]

\* summary_cols
summary_cols ==
    {"monthly_revenue", "cumulative_revenue", "cumulative_cost", "net_revenue",
     "active_customers"}

\* A value of column col in hundredths: the money columns are in cents already.
Hundredths(col, x) == IF col = "active_customers" THEN 100 * x ELSE x

\* The values of column col in the rows of month m, in panel order, in hundredths.
ColumnOfMonth(rows, col, m) ==
    LET idx == SelectSeq([i \in DOMAIN rows |-> i], LAMBDA i : rows[i].month = m)
    IN  [k \in DOMAIN idx |-> Hundredths(col, rows[idx[k]][col])]

\* .agg(["mean", "std", "median", P10, P90]).round(2) of one group, in
\* hundredths; the standard deviation is pandas' (one degree of freedom off).
SummaryOf(xs) ==
    [mean   |-> RoundHalfEven(Mean(xs).num, Mean(xs).den),
     std    |-> Std(xs, 1),
     median |-> RoundHalfEven(Median(xs).num, Median(xs).den),
     p10    |-> RoundHalfEven(Percentile(xs, 1).num, Percentile(xs, 1).den),
     p90    |-> RoundHalfEven(Percentile(xs, 9).num, Percentile(xs, 9).den)]

\* results_df.groupby("month")[summary_cols].agg(...).round(2).reset_index():
\* one row per month, in month order.
SummaryStats(rows, months) ==
    [m \in 1..months |->
        [month |-> m,
         stats |-> [col \in summary_cols |-> SummaryOf(ColumnOfMonth(rows, col, m))]]]

RECURSIVE Unique(_, _)
\* Series.unique(): the distinct values, in order of first appearance.
Unique(xs, acc) ==
    IF xs = <<>> THEN acc
    ELSE Unique(Tail(xs),
                IF \E i \in DOMAIN acc : acc[i] = Head(xs) THEN acc ELSE Append(acc, Head(xs)))

\* Faulty variant: the last month at which net_revenue is at least entry_cost.
PaybackOfSimLast(rows, sim_id, entry_cost) ==
    LET hit == {i \in DOMAIN rows : /\ rows[i].simulation = sim_id
                                    /\ rows[i].net_revenue >= entry_cost * 100}
    IN  IF hit = {} THEN -1
        ELSE rows[CHOOSE i \in hit : \A j \in hit : rows[i].month >= rows[j].month].month

\* One pass of the loop over the simulations: the rows of sim_id in month
\* order, masked by net_revenue >= entry_cost (entry_cost in USD); the month
\* of the first masked row, or -1.
PaybackOfSim(rows, sim_id, entry_cost) ==
    LET hit == {i \in DOMAIN rows : /\ rows[i].simulation = sim_id
                                    /\ rows[i].net_revenue >= entry_cost * 100}
    IN  IF hit = {} THEN -1
        ELSE rows[CHOOSE i \in hit : \A j \in hit : rows[i].month <= rows[j].month].month

\* payback_periods, in the order of simulation_results["simulation"].unique()
PaybackPeriods(rows, entry_cost) ==
    LET ids == Unique([i \in DOMAIN rows |-> rows[i].simulation], <<>>)
    IN  [k \in DOMAIN ids |-> PaybackOfSim(rows, ids[k], entry_cost)]

\* Faulty variant: every payback period is taken, the -1 entries too.
ValidPaybacksAll(payback_periods) == payback_periods

\* [p for p in payback_periods if p > 0]
ValidPaybacks(payback_periods) == SelectSeq(payback_periods, LAMBDA p : p > 0)

\* Faulty variant: the share is taken of the simulations that paid back.
NeverPaysBackPctOfValid(payback_periods, valid_paybacks) ==
    [num |-> (Len(payback_periods) - Len(valid_paybacks)) * 100,
     den |-> Len(valid_paybacks)]

\* (len(payback_periods) - len(valid_paybacks)) / len(payback_periods) * 100
NeverPaysBackPct(payback_periods, valid_paybacks) ==
    [num |-> (Len(payback_periods) - Len(valid_paybacks)) * 100,
     den |-> Len(payback_periods)]

\* stats_dict
StatsDict(payback_periods) ==
    LET valid_paybacks == ValidPaybacks(payback_periods)
    IN  IF valid_paybacks # <<>>
        THEN [mean   |-> Mean(valid_paybacks),
              median |-> Median(valid_paybacks),
              std    |-> Std(valid_paybacks, 0),
              p10    |-> Percentile(valid_paybacks, 1),
              p90    |-> Percentile(valid_paybacks, 9),
              never_pays_back_pct |-> NeverPaysBackPct(payback_periods, valid_paybacks)]
        ELSE [mean   |-> [num |-> -1, den |-> 1],
              median |-> [num |-> -1, den |-> 1],
              std    |-> [kind |-> "value", value |-> 0],
              p10    |-> [num |-> -1, den |-> 1],
              p90    |-> [num |-> -1, den |-> 1],
              never_pays_back_pct |-> [num |-> 100, den |-> 1]]

\* payback_df: "simulation" is range(len(payback_periods))
PaybackFrame(payback_periods) ==
    [k \in DOMAIN payback_periods |->
        [simulation |-> k - 1, payback_period_months |-> payback_periods[k]]]

\* The generator is not in the state the run before left it in: something
\* drew from it in between.
DrawnBetween == seen # <<>> /\ rng # seen[Len(seen)].rng_after

\* simulator.simulate_revenue(months, n_sims, market_adjustment)
SimulateRevenue(months, n_sims, market_adjustment) ==
    /\ Len(seen) < MaxRuns
    /\ call' = [op |-> "simulate_revenue", months |-> months, n_sims |-> n_sims,
                market_adjustment |-> market_adjustment]
    /\ status' = "ok"
    /\ \E run \in {RunSimulations(BaseValues(assumptions, months, n_sims, market_adjustment),
                                  SeedAtStart(rng))} :
          /\ rng' = run.rng
          /\ sims' = run.sims
          /\ panel' = run.all_results
          /\ summary' = SummaryStats(run.all_results, months)
          /\ seen' = Append(seen,
                        [months |-> months, n_sims |-> n_sims,
                         market_adjustment |-> market_adjustment,
                         drawn_between |-> DrawnBetween, rng_after |-> run.rng,
                         sims |-> run.sims, panel |-> run.all_results,
                         summary |-> SummaryStats(run.all_results, months)])
    /\ UNCHANGED <<given, weights, warnings, df, scored, tested, points, assumptions, scenarios, sensvars,
                   forecast, payback, paydist>>

RECURSIVE AdvanceBy(_, _)
\* k draws move the generator k steps on.
AdvanceBy(s, k) == IF k = 0 THEN s ELSE AdvanceBy(Advance(s), k - 1)

\* The state the generator was left in by the last run, or is in at the start.
LastLeft == IF seen = <<>> THEN 0 ELSE seen[Len(seen)].rng_after

\* Some other code of the process draws k values from np.random, once
\* between two runs.
OtherDraw(k) ==
    /\ rng = LastLeft
    /\ rng' = AdvanceBy(rng, k)
    /\ UNCHANGED <<given, weights, warnings, df, call, status, scored, tested, points,
                   assumptions, scenarios, sensvars, forecast, payback, sims, panel, summary, seen, paydist>>

\* simulator.calculate_payback_distribution(simulation_results, entry_cost),
\* on the panel the last simulate_revenue call returned.
CalculatePaybackDistribution(entry_cost) ==
    /\ call.op = "simulate_revenue"
    /\ call' = [op |-> "calculate_payback_distribution", entry_cost |-> entry_cost]
    /\ status' = "ok"
    /\ \E payback_periods \in {PaybackPeriods(panel, entry_cost)} :
          paydist' = [payback_df |-> PaybackFrame(payback_periods),
                      stats_dict |-> StatsDict(payback_periods)]
    /\ UNCHANGED <<given, weights, warnings, df, scored, tested, points, assumptions, scenarios, sensvars,
                   forecast, payback, rng, sims, panel, summary, seen>>

\* The frames a caller may make of a panel before passing it on: the rows of
\* some of its simulations, as they are or in reverse order.
Selections(rows) ==
    LET ids == {rows[r].simulation : r \in DOMAIN rows}
        Reverse(xs) == [i \in DOMAIN xs |-> xs[Len(xs) + 1 - i]]
    IN  UNION {{SelectSeq(rows, LAMBDA r : r.simulation \in keep),
                Reverse(SelectSeq(rows, LAMBDA r : r.simulation \in keep))} :
                    keep \in SUBSET ids \ {{}}}

\* simulator.calculate_payback_distribution(simulation_results, entry_cost),
\* on a frame the caller made of the panel the last simulate_revenue call
\* returned.
CalculatePaybackDistributionOn(simulation_results, entry_cost) ==
    /\ call.op = "simulate_revenue"
    /\ call' = [op |-> "calculate_payback_distribution_on",
                simulation_results |-> simulation_results, entry_cost |-> entry_cost]
    /\ status' = "ok"
    /\ \E payback_periods \in {PaybackPeriods(simulation_results, entry_cost)} :
          paydist' = [payback_df |-> PaybackFrame(payback_periods),
                      stats_dict |-> StatsDict(payback_periods)]
    /\ UNCHANGED <<given, weights, warnings, df, scored, tested, points, assumptions,
                   scenarios, sensvars, forecast, payback, rng, sims, panel, summary, seen>>

\* The uncertainty parameters: the defaults, and a wide setting.
Uncertainties ==
    {[lead_to_opportunity_sd |-> 40, opportunity_to_win_sd |-> 50,
      churn_sd |-> 6, cac_sd |-> 2500],
     [lead_to_opportunity_sd |-> 40, opportunity_to_win_sd |-> 200,
      churn_sd |-> 20, cac_sd |-> 5000]}

\* The assumptions of a simulator with every field given.
FullSimAssumptions ==
    {[leads_per_month_initial |-> 40,
      lead_to_opportunity     |-> l2o,
      opportunity_to_win      |-> 400,
      sales_cycle_months      |-> cycle,
      monthly_churn           |-> 18,
      acv_usd                 |-> acv,
      gross_margin            |-> 82,
      cac_usd_per_customer    |-> 14000,
      lead_to_opportunity_sd  |-> u.lead_to_opportunity_sd,
      opportunity_to_win_sd   |-> u.opportunity_to_win_sd,
      churn_sd                |-> u.churn_sd,
      cac_sd                  |-> u.cac_sd] :
        l2o \in {100, 480}, cycle \in {1, 2}, acv \in {240000}, u \in Uncertainties}

\* The fields a simulator's configuration may leave out.
OptionalSimFields == {"leads_per_month_initial"}

\* The assumptions a simulator is built with, for the runs whose payback is taken.
DistAssumptionSets ==
    {[k \in DOMAIN a \ O |-> a[k]] : a \in FullSimAssumptions, O \in SUBSET OptionalSimFields}

\* The assumptions a simulator is built with, for the repeated runs.
SimAssumptionSets == {a \in DistAssumptionSets : a.lead_to_opportunity = 480}

\* market_adjustment, in hundredths: 0.1 for the repeated runs, 0.1 and 0.25
\* for the runs whose payback is taken.
SimAdjustments == {10}
DistAdjustments == {10, 25}

\* entry_cost, in USD: 1,000, 20,000 and the default 120,000.
SimEntryCosts == {1000, 20000, 120000}

\* MonteCarloSimulator(a), then nothing called yet.
SimulatorConstructed(a) ==
        /\ given = IdleWeights
        /\ weights = StoredWeights(IdleWeights)
        /\ warnings = ValidateWarnings(IdleWeights)
        /\ df = IdleTable
        /\ call = NoCall
        /\ status = "none"
        /\ scored = NoTable
        /\ tested = <<>>
        /\ points = <<>>
        /\ assumptions = a
        /\ forecast = <<>>
        /\ payback = NoPayback
        /\ scenarios = NoScenarios
        /\ sweeps = <<>>
        /\ full = NoFull
        /\ rng = 0
        /\ sims = <<>>
        /\ panel = <<>>
        /\ summary = <<>>
        /\ seen = <<>>
        /\ paydist = NoDist

InitSim == \E a \in SimAssumptionSets : SimulatorConstructed(a)

InitDist == \E a \in DistAssumptionSets : SimulatorConstructed(a)

NextSim ==
    \/ \E months \in 1..MaxSimMonths, n_sims \in 1..MaxSims, adj \in SimAdjustments :
            SimulateRevenue(months, n_sims, adj)
    \/ \E k \in 1..MaxOtherDraws : OtherDraw(k)

\* Runs of simulate_revenue, with other draws from np.random in between.
SpecSim == InitSim /\ [][NextSim]_vars

\* A first call of simulate_revenue on a new simulator.
SimulateOnce(months, n_sims, market_adjustment) ==
    /\ call = NoCall
    /\ SimulateRevenue(months, n_sims, market_adjustment)

NextDist ==
    \/ \E months \in 1..MaxSimMonths, n_sims \in 1..MaxSims, adj \in DistAdjustments :
            SimulateOnce(months, n_sims, adj)
    \/ \E entry_cost \in SimEntryCosts : CalculatePaybackDistribution(entry_cost)
    \/ \E entry_cost \in SimEntryCosts : \E frame \in Selections(panel) :
            CalculatePaybackDistributionOn(frame, entry_cost)

\* One run of simulate_revenue and the payback distribution of its panel.
SpecDist == InitDist /\ [][NextDist]_vars

-----------------------------------------------------------------------------
(* Claims about score_markets                                              *)

Scored == call.op = "score_markets" /\ status = "ok"

\* The number of rows of the returned table with a strictly higher total_score.
StrictlyAbove(r) ==
    Cardinality({j \in DOMAIN scored.rows : scored.rows[j].total_score > r.total_score})

\* The criteria that are keys of the weight vector and standardized fields of the table.
PresentCriteria ==
    {k \in DOMAIN given.num : k \in DOMAIN feature_mapping /\ feature_mapping[k] \in df.columns}

\* Sum over PresentCriteria of weight * standardized value, for one returned row.
WeightedSum(r) ==
    SumSet([k \in PresentCriteria |-> given.num[k] * r.v[feature_mapping[k]]], PresentCriteria)

\* C1: when the weights sum to 1 within 0.01, every market of rank 1 has a
\* total_score at least that of every other market of the returned table.
C1_RankOneIsBest ==
    (Scored /\ ~SumOff(given)) =>
        \A i, j \in DOMAIN scored.rows :
            scored.rows[i].rank = 1 => scored.rows[i].total_score >= scored.rows[j].total_score

\* C1 witness: a scored table whose rank-1 market strictly beats another one.
C1_Witness ==
    /\ Scored /\ ~SumOff(given)
    /\ \E i, j \in DOMAIN scored.rows :
          /\ scored.rows[i].rank = 1
          /\ scored.rows[i].total_score > scored.rows[j].total_score

\* C2: "min" ties: every market's rank is the number of markets with a strictly
\* higher total_score, plus 1; so equal scores share a rank.
C2_MinRank ==
    Scored =>
        /\ \A i \in DOMAIN scored.rows :
              scored.rows[i].rank = StrictlyAbove(scored.rows[i]) + 1
        /\ \A i, j \in DOMAIN scored.rows :
              scored.rows[i].total_score = scored.rows[j].total_score
                  => scored.rows[i].rank = scored.rows[j].rank

\* C2 witness: two markets tied at rank 1, and the next market at rank 3.
C2_Witness ==
    /\ Scored
    /\ \E i, j, k \in DOMAIN scored.rows :
          /\ i # j
          /\ scored.rows[i].rank = 1 /\ scored.rows[j].rank = 1
          /\ scored.rows[k].rank = 3
          /\ scored.rows[k].total_score < scored.rows[i].total_score

\* Weight 1.0 on key k and 0.0 on every other key.
OneHot(k) ==
    /\ k \in DOMAIN given.num
    /\ given.num[k] = given.den
    /\ \A o \in DOMAIN given.num \ {k} : given.num[o] = 0

\* C3: total_score is the sum of weight * standardized value over the criteria
\* that are both weight keys and fields of the table; with weight 1.0 on one
\* present criterion and 0.0 elsewhere it is that criterion's value.
C3_TotalScore ==
    Scored =>
        /\ \A i \in DOMAIN scored.rows :
              scored.rows[i].total_score = WeightedSum(scored.rows[i])
        /\ \A k \in PresentCriteria : OneHot(k) =>
              \A i \in DOMAIN scored.rows :
                  scored.rows[i].total_score = scored.den * scored.rows[i].v[feature_mapping[k]]

\* C3 witness: a one-hot vector scored over a table where the criterion is not 0.
C3_Witness ==
    /\ Scored
    /\ \E k \in PresentCriteria :
          /\ OneHot(k)
          /\ Cardinality(PresentCriteria) > 1
          /\ \E i \in DOMAIN scored.rows : scored.rows[i].total_score # 0

WeightsWarning == [kind |-> "weights_sum", name |-> "None"]

\* C4 as stated: weights off 1.0 by more than 0.01 give a warning, no failure,
\* and the weights used for scoring are rescaled to sum to 1.0.
C4_Renormalized ==
    (call.op = "score_markets" /\ SumOff(given)) =>
        /\ status = "ok"
        /\ WeightsWarning \in warnings
        /\ WeightSum(weights) = weights.den
        /\ \A a, b \in DOMAIN given.num :
              weights.num[a] * given.num[b] = weights.num[b] * given.num[a]

\* C4 amended: weights off 1.0 by more than 0.01 give a warning and no failure,
\* and the scorer scores with the weights exactly as given: their sum stays off.
C4_WarnedAsGiven ==
    SumOff(given) =>
        /\ WeightsWarning \in warnings
        /\ weights = given
        /\ call.op = "score_markets" =>
              /\ status = "ok"
              /\ scored.den = given.den
              /\ \A i \in DOMAIN scored.rows :
                    scored.rows[i].total_score = WeightedSum(scored.rows[i])

\* C4 witness: a table scored with weights summing to 1.5, with a non-zero score.
C4_Witness ==
    /\ Scored /\ SumOff(given)
    /\ WeightSum(given) > given.den
    /\ \E i \in DOMAIN scored.rows : scored.rows[i].total_score # 0

\* The weight keys with no standardized field in the table.
AbsentCriteria == DOMAIN given.num \ PresentCriteria

\* C5: a weight whose criterion has no standardized field (field absent or name
\* unmapped) adds nothing to any total_score and does not fail the call, which
\* returns one scored, ranked row per input market.
C5_MissingContributesZero ==
    call.op = "score_markets" =>
        /\ status = "ok"
        /\ Len(scored.rows) = Len(df.rows)
        /\ \A i \in DOMAIN df.rows : \E j \in DOMAIN scored.rows :
              /\ scored.rows[j].country_code = df.rows[i].country_code
              /\ scored.rows[j].rank \in 1..Len(df.rows)
              /\ scored.rows[j].total_score = WeightedSum(df.rows[i])
              /\ DOMAIN scored.rows[j].comp = PresentCriteria

\* C5 witness: a call with an unmapped key, a mapped key without its column,
\* and a present criterion that gives some market a non-zero score.
C5_Witness ==
    /\ Scored
    /\ \E a, b \in AbsentCriteria :
          /\ a \notin DOMAIN feature_mapping /\ given.num[a] > 0
          /\ b \in DOMAIN feature_mapping /\ given.num[b] > 0
    /\ \E i \in DOMAIN scored.rows : scored.rows[i].total_score # 0

\* C18: the table score_markets returns has exactly one row per input market,
\* its rank values are non-decreasing from the first row to the last, and the
\* first row has rank 1.
C18_OneRowPerMarketByRank ==
    Scored =>
        /\ Len(scored.rows) = Len(df.rows)
        /\ \A i \in DOMAIN df.rows :
              Cardinality({j \in DOMAIN scored.rows :
                              scored.rows[j].country_code = df.rows[i].country_code}) = 1
        /\ scored.rows[1].rank = 1
        /\ \A j \in 1..(Len(scored.rows) - 1) :
              scored.rows[j].rank <= scored.rows[j + 1].rank

\* C18 witness: a scored table of distinct ranks whose best market is not the
\* first market of the input, so the sort moved rows.
C18_Witness ==
    /\ Scored
    /\ Len(scored.rows) >= 3
    /\ scored.rows[1].country_code # df.rows[1].country_code
    /\ scored.rows[Len(scored.rows)].rank = Len(scored.rows)

-----------------------------------------------------------------------------
(* Claims about sensitivity_analysis                                       *)

Swept == call.op = "sensitivity_analysis" /\ status = "ok"

\* The base sum of the weights other than the varied one, over given.den.
BaseOthers == SumSet(given.num, DOMAIN given.num \ {call.weight_name})

\* The tested value of point i differs from the base weight of the varied key.
Moved(i) ==
    tested[i].num[call.weight_name] * given.den # given.num[call.weight_name] * tested[i].den

ClaimedLow ==
    Max(0, 200 * given.num[call.weight_name] - call.step * call.n_runs * given.den)
ClaimedHigh ==
    Min(200 * given.den,
        200 * given.num[call.weight_name] + call.step * call.n_runs * given.den)

\* C7: the tested values are n_points evenly spaced values from
\* max(0, original - step*n/2) up to min(1, original + step*n/2), all in [0,1]
\* (stated here for two points or more and base vectors summing to 1).
C7_ClaimedRange ==
    (Swept /\ call.n_runs >= 2 /\ ~SumOff(given)) =>
        /\ Len(tested) = call.n_runs
        /\ tested[1].num[call.weight_name] * 200 * given.den = ClaimedLow * tested[1].den
        /\ tested[Len(tested)].num[call.weight_name] * 200 * given.den
              = ClaimedHigh * tested[Len(tested)].den
        /\ \A i \in DOMAIN tested :
              /\ tested[i].num[call.weight_name] >= 0
              /\ tested[i].num[call.weight_name] <= tested[i].den
              /\ (call.n_runs - 1) * 200 * given.den * tested[i].num[call.weight_name]
                    = tested[i].den * ((call.n_runs - 1) * ClaimedLow
                                        + (i - 1) * (ClaimedHigh - ClaimedLow))

\* The number of points a tested value records.
PerValue == Min(3, Len(df.rows))

\* The points recorded at the i-th tested value.
PointsAt(i) == SubSeq(points, (i - 1) * PerValue + 1, i * PerValue)

\* The total_score (over tested[i].den) of the input market with this code
\* under the i-th tested weight vector.
ScoreUnder(i, code) ==
    LET r == CHOOSE r \in DOMAIN df.rows : df.rows[r].country_code = code
    IN  TotalScore(tested[i], df, df.rows[r])

\* The rank of that market under the i-th tested weight vector.
RankUnder(i, code) ==
    1 + Cardinality({r \in DOMAIN df.rows :
            ScoreUnder(i, df.rows[r].country_code) > ScoreUnder(i, code)})

\* C19: every tested value records exactly min(3, markets) points, for the
\* first three rows of the table ranked under that tested weight vector, each
\* with the rank and total_score its market has under that vector; the result
\* has n_points * min(3, markets) points.
C19_TopThreePerValue ==
    Swept =>
        /\ Len(points) = call.n_runs * PerValue
        /\ \A i \in 1..call.n_runs :
              /\ \A p \in DOMAIN PointsAt(i) :
                    /\ PointsAt(i)[p].weight_name = call.weight_name
                    /\ PointsAt(i)[p].weight_value.num * tested[i].den
                          = tested[i].num[call.weight_name] * PointsAt(i)[p].weight_value.den
                    /\ PointsAt(i)[p].total_score = ScoreUnder(i, PointsAt(i)[p].country_code)
                    /\ PointsAt(i)[p].den = tested[i].den
                    /\ PointsAt(i)[p].rank = RankUnder(i, PointsAt(i)[p].country_code)
                    /\ \A q \in 1..(p - 1) :
                          /\ PointsAt(i)[q].country_code # PointsAt(i)[p].country_code
                          /\ PointsAt(i)[q].rank <= PointsAt(i)[p].rank
              /\ \A r \in DOMAIN df.rows :
                    (\A p \in DOMAIN PointsAt(i) :
                        PointsAt(i)[p].country_code # df.rows[r].country_code)
                    => \A p \in DOMAIN PointsAt(i) :
                          PointsAt(i)[p].rank <= RankUnder(i, df.rows[r].country_code)

\* C19 witness: a sweep of two values or more over four markets in which a
\* market recorded at one tested value is left out at another.
C19_Witness ==
    /\ Swept
    /\ Len(df.rows) = 4
    /\ call.n_runs >= 2
    /\ \E i, k \in 1..call.n_runs : \E p \in DOMAIN PointsAt(i) :
          \A q \in DOMAIN PointsAt(k) :
              PointsAt(k)[q].country_code # PointsAt(i)[p].country_code

\* C8: a sweep on a name that is no key of the base weights ends in ValueError
\* before any scorer is built, returns no points and leaves the weights alone.
C8_UnknownNameRejected ==
    (call.op = "sensitivity_analysis" /\ call.weight_name \notin DOMAIN given.num) =>
        /\ status = "ValueError"
        /\ tested = <<>>
        /\ points = <<>>
        /\ scored = NoTable
        /\ warnings = ValidateWarnings(given)
        /\ weights = given

\* C8 witness: a sweep was asked on a mapped criterion the weights do not hold.
C8_Witness ==
    /\ call.op = "sensitivity_analysis"
    /\ call.weight_name \notin DOMAIN given.num
    /\ call.weight_name \in DOMAIN feature_mapping
    /\ status = "ValueError"

\* The other keys of the base vector, next to the varied one.
OtherKeys == DOMAIN given.num \ {call.weight_name}

\* C25: at every tested value w where the other weights' base sum is positive,
\* each other weight is its base value times (1 - w) / (base sum of the
\* others): the others keep their pairwise ratios and total 1 - w; where
\* that base sum is 0 they all stay 0.
C25_ProportionalRescale ==
    Swept => \A i \in DOMAIN tested :
        /\ BaseOthers > 0 =>
              /\ \A k \in OtherKeys :
                    tested[i].num[k] * BaseOthers
                        = given.num[k] * (tested[i].den - tested[i].num[call.weight_name])
              /\ \A k, l \in OtherKeys :
                    tested[i].num[k] * given.num[l] = tested[i].num[l] * given.num[k]
              /\ SumSet(tested[i].num, OtherKeys)
                    = tested[i].den - tested[i].num[call.weight_name]
        /\ BaseOthers = 0 => \A k \in OtherKeys : tested[i].num[k] = 0

\* C25 witness: a sweep next to two other weights of different positive base
\* values, at a tested value away from the base weight and below 1.
C25_Witness ==
    /\ Swept
    /\ \E k, l \in OtherKeys :
          /\ given.num[k] > given.num[l]
          /\ given.num[l] > 0
          /\ \E i \in DOMAIN tested :
                /\ Moved(i)
                /\ tested[i].num[l] > 0

\* The tables a sweep of name from the base vector given returns on its own,
\* one for each way of placing the rows of equal rank.
Standalone(name, step, n) ==
    {SweepOutcome(given, df, name, step, n, pri).points : pri \in Perms(Len(df.rows))}

\* C26: sensitivity_analysis leaves the base weights of the scorer as they
\* were given, after any number of sweeps in any order, so every sweep
\* returns what a sweep of its criterion from the original base vector
\* returns, and the result of run_full_sensitivity holds exactly one such
\* entry for every key of the base vector.
C26_BaseWeightsKept ==
    /\ weights = given
    /\ \A s \in DOMAIN sweeps :
          /\ sweeps[s].status = SweepOutcome(given, df, sweeps[s].weight_name,
                                             sweeps[s].step, sweeps[s].n_runs,
                                             [i \in DOMAIN df.rows |-> i]).status
          /\ sweeps[s].points \in Standalone(sweeps[s].weight_name, sweeps[s].step,
                                             sweeps[s].n_runs)
    /\ call.op = "run_full_sensitivity" =>
          /\ status = "ok"
          /\ Len(full) = Cardinality(DOMAIN given.num)
          /\ \A k \in DOMAIN given.num :
                \E e \in DOMAIN full :
                    /\ full[e].weight_name = k
                    /\ full[e].points \in Standalone(k, call.step, call.n_runs)

\* C26 witness: two sweeps of different criteria one after the other, the
\* first of which tested vectors other than the base one, both with points.
C26_Witness ==
    /\ Len(sweeps) = 2
    /\ sweeps[1].weight_name # sweeps[2].weight_name
    /\ sweeps[1].status = "ok" /\ sweeps[2].status = "ok"
    /\ sweeps[1].points # <<>> /\ sweeps[2].points # <<>>
    /\ \E p \in DOMAIN sweeps[1].points :
          sweeps[1].points[p].weight_value.num * given.den
              # given.num[sweeps[1].weight_name] * sweeps[1].points[p].weight_value.den

-----------------------------------------------------------------------------
(* Claims about forecast_revenue                                           *)

Forecasted == call.op = "forecast_revenue" /\ status = "ok"

\* C9: forecast_revenue(months = N) returns exactly N month records, with
\* month values 1, 2, ..., N in that order.
C9_MonthsInOrder ==
    Forecasted =>
        /\ Len(forecast) = call.months
        /\ \A i \in 1..Len(forecast) : forecast[i].month = i

\* C9 witness: a forecast over the longest horizon, in a scenario with multipliers.
C9_Witness ==
    /\ Forecasted
    /\ call.months = MaxMonths
    /\ call.scenario = "pessimistic"
    /\ Len(forecast) = MaxMonths

\* C10: active_customers is a non-negative integer in every month record.
C10_ActiveNonNegative ==
    Forecasted =>
        \A i \in 1..Len(forecast) :
            forecast[i].active_customers \in Nat

\* C10 witness: a month in which more customers churn than were active and
\* won together, so only the clamp keeps the count at 0.
C10_Witness ==
    /\ Forecasted
    /\ \E i \in 2..Len(forecast) :
          /\ forecast[i].churned > forecast[i - 1].active_customers + forecast[i].new_wins
          /\ forecast[i].active_customers = 0

\* The multipliers of the scenario table: lead->opp and opp->win (tenths),
\* churn (tenths), market_adjustment (hundredths).
TableMultipliers ==
    [base        |-> [l2o |-> 10, o2w |-> 10, churn |-> 10, adj |-> 100],
     optimistic  |-> [l2o |-> 12, o2w |-> 12, churn |-> 8,  adj |-> 115],
     pessimistic |-> [l2o |-> 8,  o2w |-> 8,  churn |-> 12, adj |-> 85]]

\* The value of an assumption field, or the default the forecaster reads.
Assumed(field, default) ==
    IF field \in DOMAIN assumptions THEN assumptions[field] ELSE default

\* active_customers at the end of the month before month m.
ActiveBefore(m) == IF m = 1 THEN 0 ELSE forecast[m - 1].active_customers

\* Month record m is what the funnel gives with the multipliers x applied once
\* to the assumed rates and to market_adjustment.
FunnelWith(x, m) ==
    LET leads == LeadsPerMonth(Assumed("leads_per_month_initial", 120),
                               call.market_adjustment, x.adj)
        l2o   == Assumed("lead_to_opportunity", 18) * x.l2o
        o2w   == Assumed("opportunity_to_win", 22) * x.o2w
        churn == Assumed("monthly_churn", 18) * x.churn
        open  == m >= Assumed("sales_cycle_months", 2)
    IN  /\ forecast[m].new_leads = leads
        /\ forecast[m].new_opportunities = IF open THEN Trunc(leads * l2o, 1000) ELSE 0
        /\ forecast[m].new_wins = IF open THEN Trunc(leads * l2o * o2w, 1000000) ELSE 0
        /\ forecast[m].churned = Trunc(ActiveBefore(m) * churn, 10000)

\* C15: the scenario multipliers are applied once, before the monthly loop:
\* base changes nothing, optimistic and pessimistic use the multipliers of
\* the table, and every month of the run works with the same adjusted values.
C15_ScenarioMultipliers ==
    (Forecasted /\ call.scenario \in DOMAIN TableMultipliers) =>
        \A m \in 1..Len(forecast) : FunnelWith(TableMultipliers[call.scenario], m)

\* C15 witness: a pessimistic run of three months or more in which the wins
\* and, in some month, the churn differ from what the unadjusted rates give.
C15_Witness ==
    /\ Forecasted
    /\ call.scenario = "pessimistic"
    /\ Len(forecast) >= 3
    /\ \E m \in 1..Len(forecast) :
          /\ FunnelWith(TableMultipliers["pessimistic"], m)
          /\ ~FunnelWith(TableMultipliers["base"], m)
          /\ forecast[m].churned
                # Trunc(ActiveBefore(m) * Assumed("monthly_churn", 18) * 10, 10000)
          /\ forecast[m].new_wins > 0

\* The assumption fields the configuration of the forecaster leaves out.
MissingFields == {"leads_per_month_initial", "cac_usd_per_customer"} \ DOMAIN assumptions

AdjMultiplier ==
    IF call.scenario \in DOMAIN TableMultipliers
    THEN TableMultipliers[call.scenario].adj ELSE 100

CallMultipliers ==
    IF call.scenario \in DOMAIN TableMultipliers
    THEN TableMultipliers[call.scenario] ELSE TableMultipliers["base"]

\* The scenario-adjusted conversion rates of the call, over 1000.
CallLeadToOpp == Assumed("lead_to_opportunity", 18) * CallMultipliers.l2o
CallOppToWin == Assumed("opportunity_to_win", 22) * CallMultipliers.o2w

\* C21: in every month before sales_cycle_months new_opportunities and
\* new_wins are 0, and so are active_customers, revenue and acquisition cost;
\* from that month on the opportunities are new_leads * lead_to_opp (recorded
\* as their whole part) and new_wins is floor(opportunities * opp_to_win), of
\* the current month's leads.
C21_SalesCycleLag ==
    Forecasted =>
        \A m \in 1..Len(forecast) :
            IF m < Assumed("sales_cycle_months", 2)
            THEN /\ forecast[m].new_opportunities = 0
                 /\ forecast[m].new_wins = 0
                 /\ forecast[m].active_customers = 0
                 /\ forecast[m].monthly_revenue = 0
                 /\ forecast[m].gross_revenue = 0
                 /\ forecast[m].acquisition_cost = 0
            ELSE /\ forecast[m].new_opportunities
                        = Trunc(forecast[m].new_leads * CallLeadToOpp, 1000)
                 /\ forecast[m].new_wins
                        = Trunc(forecast[m].new_leads * CallLeadToOpp * CallOppToWin, 1000000)

\* C21 witness: a run with a sales cycle of two months or more that goes on
\* past it and wins customers in the very month the cycle ends.
C21_Witness ==
    /\ Forecasted
    /\ Assumed("sales_cycle_months", 2) >= 2
    /\ Len(forecast) > Assumed("sales_cycle_months", 2)
    /\ forecast[Assumed("sales_cycle_months", 2)].new_wins > 0
    /\ forecast[Assumed("sales_cycle_months", 2)].new_opportunities > 0

\* The scenario-adjusted monthly churn of the call, over 10000.
CallChurn == Assumed("monthly_churn", 18) * CallMultipliers.churn

\* C22: churned is floor(previous month's active_customers * monthly_churn),
\* 0 in month 1; active_customers is max(0, previous - churned + new_wins);
\* monthly_revenue is that active_customers * ACV / 12.
C22_ChurnAndActive ==
    Forecasted =>
        \A m \in 1..Len(forecast) :
            /\ forecast[m].churned = Trunc(ActiveBefore(m) * CallChurn, 10000)
            /\ m = 1 => forecast[m].churned = 0
            /\ forecast[m].active_customers
                  = Max(0, ActiveBefore(m) - forecast[m].churned + forecast[m].new_wins)
            /\ forecast[m].monthly_revenue
                  = forecast[m].active_customers * Assumed("acv_usd", 18) * 100

\* C22 witness: a month with customers won and customers churned in which
\* the churn of the customers after the wins would have been another number.
C22_Witness ==
    /\ Forecasted
    /\ \E m \in 2..Len(forecast) :
          /\ forecast[m].new_wins > 0
          /\ forecast[m].churned > 0
          /\ forecast[m].active_customers > 0
          /\ forecast[m].churned
                # Trunc((ActiveBefore(m) + forecast[m].new_wins) * CallChurn, 10000)

\* The sum of a money field over the month records 1..m.
SumTo(field, m) ==
    LET S[i \in 0..m] == IF i = 0 THEN 0 ELSE S[i - 1] + forecast[i][field]
    IN  S[m]

\* C23: cumulative_net_revenue of month m is the sum of net_revenue over the
\* months 1..m, the current month counted once, which is what one running
\* accumulator gives; cumulative_acquisition_cost is the sum of
\* acquisition_cost over the months 1..m.
C23_CumulativeSums ==
    Forecasted =>
        \A m \in 1..Len(forecast) :
            /\ forecast[m].cumulative_net_revenue = SumTo("net_revenue", m)
            /\ forecast[m].cumulative_net_revenue
                  = (IF m = 1 THEN 0 ELSE forecast[m - 1].cumulative_net_revenue)
                        + forecast[m].net_revenue
            /\ forecast[m].cumulative_acquisition_cost = SumTo("acquisition_cost", m)

\* C23 witness: a run of three months or more whose net revenue is negative
\* in one month and positive in another.
C23_Witness ==
    /\ Forecasted
    /\ Len(forecast) >= 3
    /\ \E i, j \in 1..Len(forecast) :
          /\ forecast[i].net_revenue < 0
          /\ forecast[j].net_revenue > 0
          /\ forecast[j].cumulative_acquisition_cost > 0

\* leads_per_month_initial * scenario-adjusted market_adjustment, over 10000.
LeadsProduct ==
    Assumed("leads_per_month_initial", 120) * call.market_adjustment * CallMultipliers.adj

\* C27 as stated: new_leads is the product of leads_per_month_initial and the
\* scenario-adjusted market_adjustment rounded to an integer (whichever way:
\* less than 1 away from the product), the same in every month.
C27_LeadsRounded ==
    Forecasted =>
        \A m \in 1..Len(forecast) :
            /\ forecast[m].new_leads * 10000 > LeadsProduct - 10000
            /\ forecast[m].new_leads * 10000 < LeadsProduct + 10000
            /\ forecast[m].new_leads = forecast[1].new_leads

\* C29: a scenario tag other than base, optimistic and pessimistic does not
\* fail: no multiplier is applied and the month records are those of
\* scenario "base" for the same other arguments.
C29_UnknownTagIsBase ==
    (call.op = "forecast_revenue" /\ call.scenario \notin ScenarioTags) =>
        /\ status = "ok"
        /\ forecast = ForecastLoop(LoopInputs(assumptions, call.months,
                                              call.market_adjustment, "base"),
                                   1, 0, 0, <<>>)
        /\ \A m \in 1..Len(forecast) : FunnelWith(TableMultipliers["base"], m)

\* C29 witness: a run under another tag that wins customers and whose records
\* are neither those of the optimistic nor those of the pessimistic scenario.
C29_Witness ==
    /\ Forecasted
    /\ call.scenario = "stress"
    /\ \E m \in 1..Len(forecast) :
          /\ forecast[m].new_wins > 0
          /\ ~FunnelWith(TableMultipliers["optimistic"], m)
          /\ ~FunnelWith(TableMultipliers["pessimistic"], m)

-----------------------------------------------------------------------------
(* Claims about generate_scenarios                                         *)

Generated == call.op = "generate_scenarios" /\ status = "ok"

\* The conversion rates and the churn stay at most 1 under the factor 1.2.
RatesInRange ==
    /\ Assumed("lead_to_opportunity", 18) * 12 <= 1000
    /\ Assumed("opportunity_to_win", 22) * 12 <= 1000
    /\ Assumed("monthly_churn", 18) * 12 <= 10000

\* C28: with rates and churn that stay at most 1 under the factor 1.2, the
\* three tables of generate_scenarios are ordered in every month: new_wins and
\* active_customers of optimistic >= base >= pessimistic.
C28_ScenariosOrdered ==
    (Generated /\ RatesInRange) =>
        \A m \in 1..call.months :
            /\ scenarios["optimistic"][m].new_wins >= scenarios["base"][m].new_wins
            /\ scenarios["base"][m].new_wins >= scenarios["pessimistic"][m].new_wins
            /\ scenarios["optimistic"][m].active_customers
                  >= scenarios["base"][m].active_customers
            /\ scenarios["base"][m].active_customers
                  >= scenarios["pessimistic"][m].active_customers

\* C28 witness: three tables that differ strictly in a month in which the
\* pessimistic scenario loses customers to churn.
C28_Witness ==
    /\ Generated /\ RatesInRange
    /\ \E m \in 1..call.months :
          /\ scenarios["optimistic"][m].active_customers
                > scenarios["base"][m].active_customers
          /\ scenarios["base"][m].active_customers
                > scenarios["pessimistic"][m].active_customers
          /\ scenarios["pessimistic"][m].churned > 0
          /\ scenarios["base"][m].churned > 0

-----------------------------------------------------------------------------
(* Claims about calculate_payback_period                                   *)

Paid == call.op = "calculate_payback_period" /\ status = "ok"

\* The months of the forecast whose cumulative_net_revenue is at least the
\* entry cost of the call.
PaidMonths ==
    {m \in 1..Len(forecast) :
        forecast[m].cumulative_net_revenue >= call.entry_cost * 1200}

-----------------------------------------------------------------------------
(* Claims about simulate_revenue                                           *)

\* Invocations i and j of simulate_revenue had the same arguments (the
\* assumptions are those of the one simulator).
SameInputs(i, j) ==
    /\ seen[i].months = seen[j].months
    /\ seen[i].n_sims = seen[j].n_sims
    /\ seen[i].market_adjustment = seen[j].market_adjustment

\* C12: two invocations of simulate_revenue with the same assumptions, months,
\* n_sims and market_adjustment return the same panel and the same monthly
\* summary, whatever was drawn from the generator between them.
C12_Reproducible ==
    \A i, j \in DOMAIN seen :
        SameInputs(i, j) =>
            /\ seen[i].panel = seen[j].panel
            /\ seen[i].summary = seen[j].summary

\* C12 witness: two invocations with the same arguments, the second started
\* from another generator state than the first one left it in,
\* on a panel in which customers were won.
C12_Witness ==
    /\ Len(seen) = 2
    /\ SameInputs(1, 2)
    /\ seen[2].drawn_between
    /\ seen[1].n_sims >= 2
    /\ \E r \in DOMAIN seen[2].panel : seen[2].panel[r].active_customers > 0

Simulated == call.op = "simulate_revenue" /\ status = "ok"

\* The sales cycle the simulator works with.
SimSalesCycle == Get(assumptions, "sales_cycle_months", 2)

\* The cumulative_cost of simulation k (counted from 1) after month m, in cents.
CostAfter(k, m) ==
    IF m = 0 THEN 0
    ELSE LET r == CHOOSE r \in DOMAIN panel :
                    panel[r].simulation = k - 1 /\ panel[r].month = m
         IN  panel[r].cumulative_cost

\* C14: in every simulation the sampled lead_to_opp and opp_to_win are in
\* [0.05, 0.50], churn_rate in [0.005, 0.05] and cac in [8000, 25000], and the
\* one sampled value of each is what every month of the simulation works with.
C14_SampledInBounds ==
    Simulated =>
        \A k \in DOMAIN sims :
            /\ sims[k].lead_to_opp \in 50..500
            /\ sims[k].opp_to_win \in 50..500
            /\ sims[k].churn_rate \in 5..50
            /\ sims[k].cac \in 8000..25000
            /\ \A m \in DOMAIN sims[k].months :
                  LET c == sims[k].months[m]
                  IN  /\ m >= SimSalesCycle =>
                            /\ c.opps = Trunc(c.leads * sims[k].lead_to_opp, 1000)
                            /\ c.p_wins = sims[k].opp_to_win
                      /\ c.p_churned = sims[k].churn_rate
                      /\ CostAfter(k, m) - CostAfter(k, m - 1) = c.wins * sims[k].cac * 100

\* C14 witness: a run in which clipping held a churn rate at its lower end (the
\* draw was negative) and a conversion rate at its upper end, and a simulation
\* won customers in two months.
C14_Witness ==
    /\ Simulated
    /\ \E k \in DOMAIN sims : sims[k].churn_rate = 5
    /\ \E k \in DOMAIN sims : sims[k].opp_to_win = 500
    /\ \E k \in DOMAIN sims : \E m1, m2 \in DOMAIN sims[k].months :
          m1 # m2 /\ sims[k].months[m1].wins > 0 /\ sims[k].months[m2].wins > 0

\* The panel row of simulation k (counted from 1) for month m.
RowOf(k, m) ==
    panel[CHOOSE r \in DOMAIN panel : panel[r].simulation = k - 1 /\ panel[r].month = m]

\* The pre-margin monthly_revenue of simulation k summed over months 1..m, in cents.
RevenueTo(k, m) ==
    LET S[i \in 0..m] == IF i = 0 THEN 0 ELSE S[i - 1] + RowOf(k, i).monthly_revenue
    IN  S[m]

\* wins * cac of simulation k summed over months 1..m, in cents.
CostTo(k, m) ==
    LET S[i \in 0..m] ==
            IF i = 0 THEN 0 ELSE S[i - 1] + sims[k].months[i].wins * sims[k].cac * 100
    IN  S[m]

\* C24: in every month record of every simulation cumulative_revenue is
\* gross_margin times the simulation's own pre-margin monthly_revenue summed
\* over months 1..m, cumulative_cost is the sum of wins * cac over months
\* 1..m, and net_revenue is their difference: the accumulators start at 0 in
\* each simulation and carry nothing over from the one before.
C24_AccumulatorsPerSimulation ==
    Simulated =>
        \A k \in DOMAIN sims : \A m \in DOMAIN sims[k].months :
            /\ RowOf(k, m).cumulative_revenue
                  = (RevenueTo(k, m) \div 100) * Get(assumptions, "gross_margin", 82)
            /\ RowOf(k, m).cumulative_cost = CostTo(k, m)
            /\ RowOf(k, m).net_revenue
                  = RowOf(k, m).cumulative_revenue - RowOf(k, m).cumulative_cost

\* C24 witness: a simulation that follows one which ended with revenue and
\* cost on its accumulators, and that has customers and wins of its own.
C24_Witness ==
    /\ Simulated
    /\ \E k \in DOMAIN sims :
          /\ k >= 2
          /\ RowOf(k - 1, Len(sims[k - 1].months)).cumulative_revenue > 0
          /\ RowOf(k - 1, Len(sims[k - 1].months)).cumulative_cost > 0
          /\ \E m \in DOMAIN sims[k].months :
                /\ sims[k].months[m].wins > 0
                /\ RowOf(k, m).monthly_revenue > 0

\* C16: the random stream of a simulation is derived from its index alone, so
\* what simulation k samples and draws does not depend on how much the
\* simulations before it drew: in two runs that differ in the horizon only,
\* simulation k has the same parameters and the same draws in the months both
\* runs have.
C16_StreamPerIndex ==
    \A i, j \in DOMAIN seen :
        seen[i].market_adjustment = seen[j].market_adjustment =>
            \A k \in 1..Min(seen[i].n_sims, seen[j].n_sims) :
                /\ seen[i].sims[k].lead_to_opp = seen[j].sims[k].lead_to_opp
                /\ seen[i].sims[k].opp_to_win = seen[j].sims[k].opp_to_win
                /\ seen[i].sims[k].churn_rate = seen[j].sims[k].churn_rate
                /\ seen[i].sims[k].cac = seen[j].sims[k].cac
                /\ \A m \in 1..Min(seen[i].months, seen[j].months) :
                      seen[i].sims[k].months[m] = seen[j].sims[k].months[m]

-----------------------------------------------------------------------------
(* Claims about calculate_payback_distribution                             *)

Distributed == call.op = "calculate_payback_distribution" /\ status = "ok"

\* The payback months of the returned table, in row order.
PaybackColumn ==
    [k \in DOMAIN paydist.payback_df |-> paydist.payback_df[k].payback_period_months]

\* The number of simulations whose payback entry is -1.
NeverCount == Cardinality({k \in DOMAIN PaybackColumn : PaybackColumn[k] = -1})

\* The fraction f is the whole number x.
IsWhole(f, x) == f.num = x * f.den

\* C13: for a panel of n_sims > 0 simulations never_pays_back_pct is
\* 100 * (number of -1 entries) / n_sims; when no simulation pays back it is
\* 100, with mean, median, p10 and p90 at -1 and std at 0.
C13_NeverPaysBackPct ==
    Distributed =>
        LET stats == paydist.stats_dict
        IN  /\ Len(PaybackColumn) = Len(sims)
            /\ Len(sims) > 0
            /\ stats.never_pays_back_pct.num * Len(sims)
                  = 100 * NeverCount * stats.never_pays_back_pct.den
            /\ NeverCount = Len(sims) =>
                  /\ IsWhole(stats.never_pays_back_pct, 100)
                  /\ IsWhole(stats.mean, -1) /\ IsWhole(stats.median, -1)
                  /\ IsWhole(stats.p10, -1) /\ IsWhole(stats.p90, -1)
                  /\ stats.std = [kind |-> "value", value |-> 0]

\* C13 witness: a panel of which some simulations pay back and some never do.
C13_Witness ==
    /\ Distributed
    /\ NeverCount > 0
    /\ NeverCount < Len(sims)

\* The months of simulation k (counted from 1) whose net_revenue is at least
\* the entry cost of the call.
PaidBackMonths(k) ==
    {panel[r].month : r \in {r \in DOMAIN panel :
                                /\ panel[r].simulation = k - 1
                                /\ panel[r].net_revenue >= call.entry_cost * 100}}

\* The payback months other than -1, in row order.
PaidBack == SelectSeq(PaybackColumn, LAMBDA p : p # -1)

\* C20: the payback month reported for a simulation is the smallest month of
\* that simulation whose net_revenue is at least entry_cost, or -1 if it has
\* none; mean, median, std, p10 and p90 are those of the payback months that
\* are not -1.
C20_PaybackPerSimulation ==
    Distributed =>
        /\ Len(PaybackColumn) = Len(sims)
        /\ \A k \in DOMAIN sims :
              /\ paydist.payback_df[k].simulation = k - 1
              /\ PaidBackMonths(k) = {} => PaybackColumn[k] = -1
              /\ PaidBackMonths(k) # {} =>
                    /\ PaybackColumn[k] \in PaidBackMonths(k)
                    /\ \A m \in PaidBackMonths(k) : PaybackColumn[k] <= m
        /\ PaidBack # <<>> =>
              LET stats == paydist.stats_dict
                  s     == SortAsc(PaidBack)
                  n     == Len(s)
              IN  /\ stats.mean.num * n = stats.mean.den * SumSeq(PaidBack)
                  /\ 2 * stats.median.num
                        = stats.median.den * (s[(n + 1) \div 2] + s[(n + 2) \div 2])
                  /\ stats.std = Std(PaidBack, 0)
                  /\ stats.p10 = Percentile(PaidBack, 1)
                  /\ stats.p90 = Percentile(PaidBack, 9)
                  /\ stats.p10.num >= s[1] * stats.p10.den
                  /\ stats.p90.num <= s[n] * stats.p90.den

\* C20 witness: a simulation with more than one month at or above a positive
\* entry cost, next to a simulation that never pays back.
C20_Witness ==
    /\ Distributed
    /\ call.entry_cost > 0
    /\ \E k \in DOMAIN sims : Cardinality(PaidBackMonths(k)) > 1
    /\ NeverCount > 0

\* The panel rows of simulation k (counted from 1) in invocation i.
PanelOf(i, k) == SelectSeq(seen[i].panel, LAMBDA r : r.simulation = k - 1)

\* C16 amended: the simulations of a run draw in index order from one stream,
\* seeded once at the start of the run; what simulation k samples and draws is
\* fixed by the arguments other than n_sims, and is the same in any two runs
\* with the same horizon and market_adjustment, however many simulations
\* follow it.
C16_OneSeededStream ==
    \A i, j \in DOMAIN seen :
        (/\ seen[i].market_adjustment = seen[j].market_adjustment
         /\ seen[i].months = seen[j].months) =>
            \A k \in 1..Min(seen[i].n_sims, seen[j].n_sims) :
                /\ seen[i].sims[k] = seen[j].sims[k]
                /\ PanelOf(i, k) = PanelOf(j, k)

\* C16 witness: two runs of the same horizon with different numbers of
\* simulations, with draws in between, whose first simulation won customers.
C16_Witness ==
    /\ Len(seen) = 2
    /\ seen[1].months = seen[2].months
    /\ seen[1].market_adjustment = seen[2].market_adjustment
    /\ seen[1].n_sims # seen[2].n_sims
    /\ seen[2].drawn_between
    /\ \E r \in DOMAIN PanelOf(2, 1) : PanelOf(2, 1)[r].active_customers > 0

\* The months of the simulation with identifier id, in the frame passed, whose
\* net_revenue is at least entry_cost.
PaidBackIn(id) ==
    {call.simulation_results[r].month :
        r \in {r \in DOMAIN call.simulation_results :
                  /\ call.simulation_results[r].simulation = id
                  /\ call.simulation_results[r].net_revenue >= call.entry_cost * 100}}

\* C30: for any panel passed, the simulation value of each row of the returned
\* payback table is the identifier, in the panel, of the simulation whose
\* payback month the row reports.
C30_RowsKeepIdentifiers ==
    (call.op = "calculate_payback_distribution_on" /\ status = "ok") =>
        \A k \in DOMAIN paydist.payback_df :
            LET e == paydist.payback_df[k]
            IN  /\ \E r \in DOMAIN call.simulation_results :
                      call.simulation_results[r].simulation = e.simulation
                /\ IF PaidBackIn(e.simulation) = {}
                   THEN e.payback_period_months = -1
                   ELSE /\ e.payback_period_months \in PaidBackIn(e.simulation)
                        /\ \A m \in PaidBackIn(e.simulation) : e.payback_period_months <= m

====
